---- MODULE Spec2Model ----
(***************************************************************************)
(* duniter-bma: network configuration loading (index.js) and the HTTP      *)
(* listener lifecycle (lib/network.js).                                    *)
(*                                                                         *)
(* The state machines of this module:                                      *)
(*   Spec     config.onLoading of index.js: CLI overrides, local-to-remote *)
(*            defaults, networkReconfiguration (UPnP probe + waterfall of  *)
(*            operations) and the final validation.                        *)
(*   SpecNet  createServersAndListen of lib/network.js: the per-interface  *)
(*            http servers, openConnections / closeConnections and the     *)
(*            tracked sockets.                                             *)
(*   SpecGate the request path of lib/network.js: the ddos middleware and  *)
(*            its whitelist, then handleRequest / handleFileRequest with   *)
(*            the route's limiter.                                         *)
(*   SpecUpnp the port-mapping service of lib/upnp.js and its renewal      *)
(*            timer.                                                       *)
(*   SpecBest getBestLocalIPv4 of lib/network.js over interface lists.     *)
(*   SpecWizard  the resolver from both entry points: config.onLoading     *)
(*            and the interactive wizard 'network' (networkConfiguration). *)
(***************************************************************************)
EXTENDS Integers, Sequences, FiniteSets, TLC

VARIABLES
    \* ---- configuration loading (index.js) ----
    conf,           \* the configuration object mutated by onLoading
    given,          \* the configuration as it was passed to onLoading
    program,        \* the parsed command line
    netInterfaces,  \* os.networkInterfaces(), in enumeration order
    pc,             \* position of onLoading
    ops,            \* operations left in the running async.waterfall
    upnpOut,        \* what upnpResolve handed to the waterfall
    result,         \* how onLoading ended
    \* ---- listener lifecycle (lib/network.js) ----
    api,            \* what createServersAndListen returned / threw
    interfaces,     \* the interfaces argument of createServersAndListen
    listenings,     \* listenings[i]
    bound,          \* httpServers[i].http holds a bound listening socket
    connections,    \* the connections of httpServers[i].http that are open
    sockets,        \* httpServers[i]'s sockets object: the tracked socket ids
    nextSocketId,   \* httpServers[i]'s nextSocketId
    call,           \* the openConnections / closeConnections call in progress
    last,           \* record of the last completed call
    \* ---- request admission (lib/network.js) ----
    gate,           \* ddos whitelist and table, limiters, the last request
    \* ---- port mapping service (lib/upnp.js) ----
    svc,            \* the upnpService, its interval and the timers of the process
    \* ---- interface inventory (lib/network.js) ----
    best,           \* what getBestLocalIPv4() returned
    \* ---- the service (index.js, BMAPI) ----
    node,           \* bmapi, upnpAPI, the servers and timers of the process
    \* ---- listener lifecycle, calls made at once (lib/network.js) ----
    overlap         \* the openConnections / closeConnections calls in progress

confVars == <<conf, given, program, netInterfaces, pc, ops, upnpOut, result>>
netVars  == <<api, interfaces, listenings, bound, connections, sockets,
              nextSocketId, call, last>>
moreVars == <<gate, svc, best, node, overlap>>
vars     == <<conf, given, program, netInterfaces, pc, ops, upnpOut, result,
              api, interfaces, listenings, bound, connections, sockets,
              nextSocketId, call, last, gate, svc, best, node,
              overlap>>

(***************************************************************************)
(* JavaScript values.  Every value carries its type, so that truthiness    *)
(* and the difference between the number 0 and the string "0" are those of *)
(* the language.                                                           *)
(***************************************************************************)
Undefined == [t |-> "undefined", n |-> 0, s |-> ""]
Null      == [t |-> "null",      n |-> 0, s |-> ""]
Num(k)    == [t |-> "number",    n |-> k, s |-> ""]
Str(x)    == [t |-> "string",    n |-> 0, s |-> x]
True      == [t |-> "boolean",   n |-> 1, s |-> ""]
False     == [t |-> "boolean",   n |-> 0, s |-> ""]

\* ToBoolean: undefined, null, 0, "" and false are falsy, all else truthy.
Truthy(v) ==
    CASE v.t = "number"  -> v.n # 0
      [] v.t = "string"  -> v.s # ""
      [] v.t = "boolean" -> v.n = 1
      [] OTHER           -> FALSE

\* a || b
Or(a, b) == IF Truthy(a) THEN a ELSE b

(***************************************************************************)
(* Bounds and constants.  Ports are scaled down: DEFAULT_PORT < PORT_START *)
(* <= MaxPort, MaxPort standing for 65535.                                 *)
(***************************************************************************)
DEFAULT_PORT == 1
PORT_START   == 2
MaxPort      == 3
\* interfaces given to createServersAndListen, connections accepted per server
MaxInterfaces == 2
MaxSockets    == 2

\* strings matched by constants.IPV4_REGEXP among those the model uses
IPv4Strings == {"127.0.0.1", "192.168.1.10", "192.168.1.20", "192.168.1.30",
                "203.0.113.5", "198.51.100.7"}
MatchesIPv4(x) == x \in IPv4Strings

\* the number a port value denotes: a number, or a string of digits as typed
\* on the command line (--remotep has no parser and stays a string)
ToNumber(v) ==
    IF v.t = "number" THEN v.n
    ELSE CASE v.s = "0" -> 0 [] v.s = "1" -> 1 [] v.s = "2" -> 2
           [] v.s = "3" -> 3 [] OTHER -> 4

(***************************************************************************)
(* lib/network.js: interface inventory                                     *)
(***************************************************************************)
Addr(family, address, internal, scopeid) ==
    [family |-> family, address |-> address, internal |-> internal, scopeid |-> scopeid]

\* index of the first pattern of interfacePriorityRegCatcher that the name
\* matches, or its length (11) when none does
Priority(name) ==
    CASE name = "tun0"     -> 0
      [] name = "enp2s0"   -> 1
      [] name = "enp2s0f0" -> 1
      [] name = "eth0"     -> 3
      [] name = "eth1"     -> 3
      [] name = "Ethernet" -> 4
      [] name = "wlp3s0"   -> 5
      [] name = "wlan0"    -> 6
      [] name = "Wi-Fi"    -> 7
      [] name = "lo"       -> 8
      [] name = "Loopback" -> 9
      [] name = "None"     -> 10
      [] OTHER             -> 11

RECURSIVE FlattenAddrs(_, _)
\* the res array of getBestLocal: {name, value} of every address of the family
FlattenAddrs(ifs, family) ==
    IF ifs = << >> THEN << >>
    ELSE LET h == Head(ifs)
             mine == SelectSeq(h.addresses, LAMBDA a : a.family = family)
         IN  [k \in 1..Len(mine) |-> [name |-> h.name, value |-> mine[k].address]]
             \o FlattenAddrs(Tail(ifs), family)

\* mutant: the first address of the family, whatever the interface
getBestLocalFirst(ifs, family) ==
    LET res == FlattenAddrs(ifs, family)
    IN  IF res = << >> THEN Str("") ELSE Or(Str(res[1].value), Str(""))

\* _.sortBy(res, priority)[0]: stable, so the first entry of least priority
getBestLocal(ifs, family) ==
    LET res == FlattenAddrs(ifs, family)
    IN  IF res = << >> THEN Str("")
        ELSE LET i == CHOOSE i \in 1..Len(res) :
                        /\ \A j \in 1..Len(res) : Priority(res[i].name) <= Priority(res[j].name)
                        /\ \A j \in 1..(i - 1) : Priority(res[j].name) > Priority(res[i].name)
             IN  Or(Str(res[i].value), Str(""))

getBestLocalIPv4(ifs) == getBestLocal(ifs, "IPv4")

\* addresses starting with fe80 or ::1
LinkLocalOrLoopback(a) == a \in {"fe80::1", "::1"}

RECURSIVE getBestLocalIPv6(_)
getBestLocalIPv6(ifs) ==
    IF ifs = << >> THEN Null
    ELSE LET filtered2 == SelectSeq(Head(ifs).addresses,
                            LAMBDA a : /\ a.family = "IPv6" /\ a.scopeid = 0
                                       /\ ~a.internal
                                       /\ ~LinkLocalOrLoopback(a.address))
         IN  IF filtered2 # << >> THEN Str(filtered2[1].address)
             ELSE getBestLocalIPv6(Tail(ifs))

\* getRandomPort(conf): the values it may return
getRandomPort(c) ==
    IF Truthy(c.remoteport) THEN {c.remoteport}
    ELSE {Num(p) : p \in PORT_START..MaxPort}

(***************************************************************************)
(* index.js: config.onLoading                                              *)
(***************************************************************************)
\* if (program.x) conf.y = program.x
Override(c, field, v) == IF Truthy(v) THEN [c EXCEPT ![field] = v] ELSE c

\* lines 49-55: the command line overrides
ApplyOverrides(c, p) ==
    LET c1 == Override(c,  "port",       p.port)
        c2 == Override(c1, "ipv4",       p.ipv4)
        c3 == Override(c2, "ipv6",       p.ipv6)
        c4 == Override(c3, "remotehost", p.remoteh)
        c5 == Override(c4, "remoteipv4", p.remote4)
        c6 == Override(c5, "remoteipv6", p.remote6)
    IN  Override(c6, "remoteport", p.remotep)

\* lines 57-66: default remote, same as local if defined
DefaultRemote(c) ==
    LET c1 == IF ~Truthy(c.remoteipv4) /\ Truthy(c.ipv4)
              THEN [c EXCEPT !.remoteipv4 = c.ipv4] ELSE c
        c2 == IF ~Truthy(c1.remoteipv6) /\ Truthy(c1.ipv6)
              THEN [c1 EXCEPT !.remoteipv6 = c1.ipv6] ELSE c1
    IN  IF ~Truthy(c2.remoteport) /\ Truthy(c2.port)
        THEN [c2 EXCEPT !.remoteport = c2.port] ELSE c2

\* mutant: networkReconfiguration runs at every load
autoconfNetAlways(c, p) == TRUE

\* lines 69-72: whether networkReconfiguration runs
autoconfNet(c, p) ==
    \/ Truthy(p.autoconf)
    \/ ~(Truthy(c.ipv4) \/ Truthy(c.ipv6))
    \/ ~(Truthy(c.remoteipv4) \/ Truthy(c.remoteipv6) \/ Truthy(c.remotehost))
    \/ ~(Truthy(c.port) /\ Truthy(c.remoteport))

\* lines 77-88: upnp defaults to true; --noupnp then --upnp decide
UpnpFlags(c, p) ==
    LET c1 == IF c.upnp \in {Undefined, Null} THEN [c EXCEPT !.upnp = True] ELSE c
        c2 == IF p.noupnp = True THEN [c1 EXCEPT !.upnp = False] ELSE c1
    IN  IF p.upnp = True THEN [c2 EXCEPT !.upnp = True] ELSE c2

NoLocal  == "No interface to listen to."
NoRemote == "No interface for remote contact."
NoPort   == "No port for remote contact."

\* mutant: the remote check placed before the local check
ConfigurationErrorsRemoteFirst(c) ==
    IF ~Truthy(c.remoteipv4) /\ ~Truthy(c.remoteipv6) /\ ~Truthy(c.remotehost)
    THEN NoRemote
    ELSE IF ~Truthy(c.ipv4) /\ ~Truthy(c.ipv6) THEN NoLocal
    ELSE IF ~Truthy(c.remoteport) THEN NoPort
    ELSE "ok"

\* mutant: the remote check with the negation of conf.remotehost missing
ConfigurationErrorsAnyRemote(c) ==
    IF ~Truthy(c.ipv4) /\ ~Truthy(c.ipv6) THEN NoLocal
    ELSE IF ~Truthy(c.remoteipv4) /\ ~Truthy(c.remoteipv6) /\ Truthy(c.remotehost)
         THEN NoRemote
    ELSE IF ~Truthy(c.remoteport) THEN NoPort
    ELSE "ok"

\* lines 90-99: configuration errors; "ok" when nothing is thrown
ConfigurationErrors(c) ==
    IF ~Truthy(c.ipv4) /\ ~Truthy(c.ipv6) THEN NoLocal
    ELSE IF ~Truthy(c.remoteipv4) /\ ~Truthy(c.remoteipv6) /\ ~Truthy(c.remotehost)
         THEN NoRemote
    ELSE IF ~Truthy(c.remoteport) THEN NoPort
    ELSE "ok"

(***************************************************************************)
(* lib/network.js upnpConf and index.js upnpResolve: the UPnP probe        *)
(***************************************************************************)
\* an object with no property set
EmptyConf ==
    [ipv4 |-> Undefined, ipv6 |-> Undefined, port |-> Undefined,
     remoteipv4 |-> Undefined, remoteipv6 |-> Undefined,
     remotehost |-> Undefined, remoteport |-> Undefined, upnp |-> Undefined]

\* what the gateway may answer to client.externalIp and client.findGateway
PublicIPs  == {"203.0.113.5", ""}
PrivateIPs == {"192.168.1.30", "fe80::1"}

\* upnpConf(noupnp): what the call throws, or the object it returns, an
\* object being the set of its <<property, value>> pairs ({} is the empty set)
upnpConf(noupnp) ==
    IF Truthy(noupnp)
    THEN {[thrown |-> "No UPnP", value |-> {}]}
    ELSE {[thrown |-> e, value |-> {}] : e \in {"timeout", "upnp error"}}
         \cup
         {[thrown |-> "",
           value |-> {<<"remoteipv4", IF MatchesIPv4(publicIP) THEN Str(publicIP) ELSE Null>>,
                      <<"remoteport", privatePort>>,
                      <<"port", privatePort>>,
                      <<"ipv4", IF MatchesIPv4(privateIP) THEN Str(privateIP) ELSE Null>>}] :
            privatePort \in getRandomPort(EmptyConf),
            publicIP \in PublicIPs, privateIP \in PrivateIPs}

\* mutant: the catch block hands the error to done
upnpResolvePropagates(r) ==
    IF r.thrown = ""
    THEN [err |-> "", upnpSuccess |-> TRUE,  upnpConf |-> r.value, caught |-> ""]
    ELSE [err |-> r.thrown, upnpSuccess |-> FALSE, upnpConf |-> {}, caught |-> r.thrown]

\* upnpResolve: done(null, true, conf), or done(null, false, {}) when
\* upnpConf throws; err is the first argument given to done
upnpResolve(r) ==
    IF r.thrown = ""
    THEN [err |-> "", upnpSuccess |-> TRUE,  upnpConf |-> r.value, caught |-> ""]
    ELSE [err |-> "", upnpSuccess |-> FALSE, upnpConf |-> {},      caught |-> r.thrown]

\* o.k for an object given as a set of pairs
Prop(o, k) == IF \E kv \in o : kv[1] = k THEN (CHOOSE kv \in o : kv[1] = k)[2] ELSE Undefined

\* _.extend(c, o)
Extend(c, o) == [k \in DOMAIN c |-> IF \E kv \in o : kv[1] = k THEN Prop(o, k) ELSE c[k]]

(***************************************************************************)
(* index.js: networkReconfiguration with a truthy autoconf, the only way   *)
(* onLoading calls it (autoconfNet is passed as autoconf)                  *)
(***************************************************************************)
\* getLocalNetworkOperations(conf, autoconf)[0], lines 295-298
LocalIPv4Operation(c, ifs) == [c EXCEPT !.ipv4 = getBestLocalIPv4(ifs)]

\* getLocalNetworkOperations(conf, autoconf)[1], lines 338-343
LocalIPv6Operation(c, ifs) ==
    [c EXCEPT !.ipv6 = getBestLocalIPv6(ifs), !.remoteipv6 = getBestLocalIPv6(ifs)]

\* getLocalNetworkOperations(conf, autoconf)[2], lines 355-358
LocalPortOperation(c) == {[c EXCEPT !.port = p] : p \in getRandomPort(c)}

\* getHostnameOperations(conf, logger, autoconf), lines 438-447
HostnameOperation(c) ==
    IF ~Truthy(c.ipv4) THEN [c EXCEPT !.remotehost = Null] ELSE c

\* getUseUPnPOperations(conf, logger, autoconf), lines 460-470
UseUPnPOperation(c) ==
    IF ~Truthy(c.ipv4) THEN [c EXCEPT !.upnp = False] ELSE [c EXCEPT !.upnp = True]

\* mutant: the remote IPv4 is not mirrored
MirrorOperationNoIPv4(c) ==
    [c EXCEPT !.remoteipv6 = c.ipv6, !.remoteport = c.port]

\* lines 217-224: local configuration = remote configuration
MirrorOperation(c) ==
    [c EXCEPT !.remoteipv4 = c.ipv4, !.remoteipv6 = c.ipv6, !.remoteport = c.port]

\* the configurations one operation of the waterfall may leave
Operation(name, c, ifs) ==
    CASE name = "localIPv4" -> {LocalIPv4Operation(c, ifs)}
      [] name = "localIPv6" -> {LocalIPv6Operation(c, ifs)}
      [] name = "localPort" -> LocalPortOperation(c)
      [] name = "hostname"  -> {HostnameOperation(c)}
      [] name = "useUPnP"   -> {UseUPnPOperation(c)}
      [] name = "mirror"    -> {MirrorOperation(c)}

\* lines 173-175: default values
DefaultPorts(c) ==
    [c EXCEPT !.port = Or(c.port, Num(DEFAULT_PORT)),
              !.remoteport = Or(c.remoteport, Num(DEFAULT_PORT))]

\* mutant: the probed values are not copied into the configuration
UpnpAvailableNoExtend(c, o, ifs) ==
    [conf |-> [c EXCEPT !.ipv6 = getBestLocalIPv6(ifs),
                        !.remoteipv6 = getBestLocalIPv6(ifs)],
     ops  |-> <<"useUPnP", "hostname">>]

\* lines 182-194: UPnP available, autoconf
UpnpAvailable(c, o, ifs) ==
    [conf |-> [Extend(c, o) EXCEPT !.ipv6 = getBestLocalIPv6(ifs),
                                   !.remoteipv6 = getBestLocalIPv6(ifs)],
     ops  |-> <<"useUPnP", "hostname">>]

\* lines 210-225: UPnP not available, autoconf
UpnpUnavailable(c) ==
    [conf |-> [c EXCEPT !.upnp = False],
     ops  |-> <<"localIPv4", "localIPv6", "localPort", "hostname", "mirror">>]

\* lines 171-246, the second function of networkReconfiguration's waterfall
Reconfigure(c, out, ifs) ==
    IF out.upnpSuccess THEN UpnpAvailable(DefaultPorts(c), out.upnpConf, ifs)
    ELSE UpnpUnavailable(DefaultPorts(c))

(***************************************************************************)
(* onLoading as a state machine                                            *)
(***************************************************************************)
\* lines 49-75: overrides, defaults, and the decision to reconfigure
OnLoadingBegin ==
    /\ pc = "begin"
    /\ LET c == DefaultRemote(ApplyOverrides(conf, program))
       IN  /\ conf' = c
           /\ pc' = IF autoconfNet(c, program) THEN "probe" ELSE "end"
    /\ UNCHANGED <<given, program, netInterfaces, ops, upnpOut, result, netVars, moreVars>>

\* first function of the waterfall: upnpResolve(noupnp, logger, done).  An
\* error given to done ends the waterfall and rejects onLoading.
UpnpResolve ==
    /\ pc = "probe"
    /\ \E r \in upnpConf(program.noupnp) :
          LET out == upnpResolve(r)
          IN  /\ upnpOut' = out
              /\ IF out.err = ""
                 THEN pc' = "reconfigure" /\ result' = result
                 ELSE pc' = "done" /\ result' = out.err
    /\ UNCHANGED <<conf, given, program, netInterfaces, ops, netVars, moreVars>>

\* second function of the waterfall, up to the start of the inner waterfall
NetworkReconfiguration ==
    /\ pc = "reconfigure"
    /\ LET r == Reconfigure(conf, upnpOut, netInterfaces)
       IN  conf' = r.conf /\ ops' = r.ops
    /\ pc' = "waterfall"
    /\ UNCHANGED <<given, program, netInterfaces, upnpOut, result, netVars, moreVars>>

\* one operation of the inner waterfall; after the last, back to onLoading
WaterfallStep ==
    /\ pc = "waterfall"
    /\ ops # << >>
    /\ conf' \in Operation(Head(ops), conf, netInterfaces)
    /\ ops' = Tail(ops)
    /\ pc' = IF Tail(ops) = << >> THEN "end" ELSE "waterfall"
    /\ UNCHANGED <<given, program, netInterfaces, upnpOut, result, netVars, moreVars>>

\* lines 77-99: upnp default and flags, then the configuration errors
OnLoadingEnd ==
    /\ pc = "end"
    /\ LET c == UpnpFlags(conf, program)
       IN  conf' = c /\ result' = ConfigurationErrors(c)
    /\ pc' = "done"
    /\ UNCHANGED <<given, program, netInterfaces, ops, upnpOut, netVars, moreVars>>

(***************************************************************************)
(* Initial states of onLoading: a stored configuration, a command line and *)
(* a host                                                                  *)
(***************************************************************************)
\* hosts: no interface; loopback and a wired interface with IPv4 only; the
\* same with a link-local and a global IPv6 address on the wired interface
Hosts ==
    { << >>,
      << [name |-> "lo",   addresses |-> <<Addr("IPv4", "127.0.0.1", TRUE, 0)>>],
         [name |-> "eth0", addresses |-> <<Addr("IPv4", "192.168.1.20", FALSE, 0)>>] >>,
      << [name |-> "lo",   addresses |-> <<Addr("IPv4", "127.0.0.1", TRUE, 0),
                                           Addr("IPv6", "::1", TRUE, 0)>>],
         [name |-> "eth0", addresses |-> <<Addr("IPv4", "192.168.1.20", FALSE, 0),
                                           Addr("IPv6", "fe80::1", FALSE, 2),
                                           Addr("IPv6", "2001:db8::20", FALSE, 0)>>] >> }

\* configurations as the configuration store may hold them
StoredConfs ==
    [ipv4 : {Undefined, Str("192.168.1.10")},
     ipv6 : {Undefined, Str("2001:db8::10")},
     port : {Undefined, Num(DEFAULT_PORT)},
     remoteipv4 : {Undefined, Str("198.51.100.7")},
     remoteipv6 : {Undefined},
     remotehost : {Undefined, Str("node.example.org")},
     remoteport : {Undefined, Num(DEFAULT_PORT)},
     upnp : {Undefined, True, False}]

\* command lines: --port goes through parseInt, --remotep stays a string
Programs ==
    [port : {Undefined, Num(MaxPort)},
     ipv4 : {Undefined, Str("127.0.0.1")},
     ipv6 : {Undefined},
     remoteh : {Undefined},
     remote4 : {Undefined},
     remote6 : {Undefined},
     remotep : {Undefined, Str("0"), Str("3")},
     upnp : {Undefined, True},
     noupnp : {Undefined, True},
     autoconf : {Undefined, True}]

NoCall ==
    [kind |-> "none", i |-> 0, before |-> << >>, attempted |-> {}, failed |-> {},
     error |-> FALSE, log |-> << >>, closed |-> {}]

\* the listener side before createServersAndListen is called
NetIdle ==
    /\ api = "none"
    /\ interfaces = << >>
    /\ listenings = << >>
    /\ bound = << >>
    /\ connections = << >>
    /\ sockets = << >>
    /\ nextSocketId = << >>
    /\ call = NoCall
    /\ last = NoCall

\* the request path, the port-mapping service and the inventory call before
\* anything used them
MoreIdle ==
    /\ gate = [state |-> "none"]
    /\ svc = [state |-> "none"]
    /\ best = Undefined
    /\ node = [state |-> "none"]
    /\ overlap = [state |-> "none"]

Init ==
    /\ conf \in StoredConfs
    /\ given = conf
    /\ program \in Programs
    /\ netInterfaces \in Hosts
    /\ pc = "begin"
    /\ ops = << >>
    /\ upnpOut = [err |-> "", upnpSuccess |-> FALSE, upnpConf |-> {}, caught |-> ""]
    /\ result = "pending"
    /\ NetIdle
    /\ MoreIdle

Next ==
    \/ OnLoadingBegin
    \/ UpnpResolve
    \/ NetworkReconfiguration
    \/ WaterfallStep
    \/ OnLoadingEnd

Spec == Init /\ [][Next]_vars

(***************************************************************************)
(* Properties of configuration loading                                     *)
(***************************************************************************)
HasLocal(c)  == Truthy(c.ipv4) \/ Truthy(c.ipv6)
HasRemote(c) == Truthy(c.remoteipv4) \/ Truthy(c.remoteipv6) \/ Truthy(c.remotehost)
ValidationErrors == {NoLocal, NoRemote, NoPort}

\* the probe ran and failed / ran and succeeded
ProbeFailed    == upnpOut.caught # ""
ProbeSucceeded == upnpOut.upnpSuccess
\* networkReconfiguration has returned (pc = "end"), or onLoading has
Resolved == pc \in {"end", "done"}

\* C1: when onLoading reaches its end with neither conf.ipv4 nor conf.ipv6,
\* it fails with "No interface to listen to.", whatever the other fields.
C1_NoLocalInterface ==
    (pc = "done" /\ ~HasLocal(conf)) => result = NoLocal

\* C1 witness: loading ended on that error although a remote address and a
\* remote port were set.
C1_Witness ==
    /\ pc = "done" /\ ~HasLocal(conf) /\ result = NoLocal
    /\ Truthy(conf.remoteipv4) /\ Truthy(conf.remoteport)

\* C2 as stated: every configuration given (command line applied) with a
\* local IPv4 and no remote form makes loading fail with "No interface for
\* remote contact.".
C2_Original ==
    LET c == ApplyOverrides(given, program)
    IN  (pc = "done" /\ Truthy(c.ipv4) /\ ~HasRemote(c)) => result = NoRemote

\* C2 amended: every configuration that reaches the final validation with a
\* local IPv4 and no remote form fails with "No interface for remote
\* contact."; a configuration given with a local IPv4 and no remote IPv4
\* first gets remoteipv4 = ipv4 and, when nothing reconfigures it, is valid.
C2_NoRemoteInterface ==
    /\ (pc = "done" /\ Truthy(conf.ipv4) /\ ~HasRemote(conf)) => result = NoRemote
    /\ LET c == ApplyOverrides(given, program)
       IN  (pc = "done" /\ Truthy(c.ipv4) /\ ~HasRemote(c) /\ ~ProbeFailed /\ ~ProbeSucceeded)
             => (conf.remoteipv4 = conf.ipv4 /\ conf.ipv4 = c.ipv4 /\ result # NoRemote)

\* C2 witness: validation met a local IPv4 without any remote form (the
\* gateway gave no usable external address) and raised the error.
C2_Witness ==
    pc = "done" /\ Truthy(conf.ipv4) /\ ~HasRemote(conf) /\ result = NoRemote

\* C3 as stated: a loading that completes without error leaves a local
\* address, a remote form and a non-zero remote port, and a failed loading
\* raised the error of the first violated invariant.
C3_Claim ==
    pc = "done" =>
        /\ result = "ok" =>
              (HasLocal(conf) /\ HasRemote(conf) /\ ToNumber(conf.remoteport) # 0)
        /\ result # "ok" =>
              /\ result \in ValidationErrors
              /\ result = NoLocal  <=> ~HasLocal(conf)
              /\ result = NoRemote <=> (HasLocal(conf) /\ ~HasRemote(conf))

\* C4 as stated: autoconf, probe succeeded with external IPv4 E and port P:
\* remoteipv4 = E, remoteport = P, upnp = true, remoteipv6 = best local IPv6.
C4_Original ==
    (Resolved /\ ProbeSucceeded /\ Truthy(Prop(upnpOut.upnpConf, "remoteipv4"))) =>
        /\ conf.remoteipv4 = Prop(upnpOut.upnpConf, "remoteipv4")
        /\ conf.remoteport = Prop(upnpOut.upnpConf, "remoteport")
        /\ conf.remoteipv6 = getBestLocalIPv6(netInterfaces)
        /\ conf.upnp = True

\* C4 amended: remoteipv4 = E, remoteport = P and remoteipv6 = best local
\* IPv6 for every initial configuration; upnp = true when the probe also
\* gave a local IPv4 (conf.ipv4 set), and false when it did not, unless
\* --upnp sets it at the end of onLoading.
C4_UpnpAvailable ==
    (Resolved /\ ProbeSucceeded /\ Truthy(Prop(upnpOut.upnpConf, "remoteipv4"))) =>
        /\ conf.remoteipv4 = Prop(upnpOut.upnpConf, "remoteipv4")
        /\ conf.remoteport = Prop(upnpOut.upnpConf, "remoteport")
        /\ conf.remoteipv6 = getBestLocalIPv6(netInterfaces)
        /\ conf.ipv4 = Prop(upnpOut.upnpConf, "ipv4")
        /\ conf.upnp = IF Truthy(conf.ipv4) \/ (pc = "done" /\ program.upnp = True)
                       THEN True ELSE False

\* C4 witness: a stored configuration with upnp = false and another remote
\* address was resolved through a successful probe.
C4_Witness ==
    /\ pc = "done" /\ ProbeSucceeded /\ result = "ok"
    /\ given.upnp = False /\ Truthy(given.remoteipv4)
    /\ conf.remoteipv4 = Str("203.0.113.5") /\ conf.upnp = True
    /\ conf.remoteport = Num(MaxPort) /\ Truthy(conf.remoteipv6)

\* C5 as stated: autoconf, probe failed or disabled: remote = local for
\* IPv4, IPv6 and port, and upnp = false.
C5_Original ==
    (Resolved /\ ProbeFailed) =>
        /\ conf.remoteipv4 = conf.ipv4
        /\ conf.remoteipv6 = conf.ipv6
        /\ conf.remoteport = conf.port
        /\ conf.upnp = False

\* C5 amended: remote = local for IPv4, IPv6 and port; upnp = false when
\* networkReconfiguration returns, and at the end of onLoading unless
\* --upnp was given, which sets it to true.
C5_UpnpUnavailable ==
    (Resolved /\ ProbeFailed) =>
        /\ conf.remoteipv4 = conf.ipv4
        /\ conf.remoteipv6 = conf.ipv6
        /\ conf.remoteport = conf.port
        /\ conf.ipv4 = getBestLocalIPv4(netInterfaces)
        /\ conf.upnp = IF pc = "done" /\ program.upnp = True THEN True ELSE False

\* C5 witness: the probe timed out on a host with an IPv4 interface, and a
\* stored remote address was replaced by the local one.
C5_Witness ==
    /\ pc = "done" /\ upnpOut.caught = "timeout" /\ result = "ok"
    /\ Truthy(given.remoteipv4) /\ given.upnp = True
    /\ conf.ipv4 = Str("192.168.1.20") /\ conf.remoteipv4 = conf.ipv4
    /\ conf.upnp = False

IsSuffix(s, t) == \E k \in 0..Len(t) : s = SubSeq(t, k + 1, Len(t))

\* C6: a failed probe (timeout, protocol error, --noupnp) gives no error to
\* the waterfall, which goes on with the UPnP-unavailable operations; the
\* only errors that end onLoading are the three of the final validation.
C6_ProbeFailureNotFatal ==
    /\ result \in {"pending", "ok"} \cup ValidationErrors
    /\ result # "pending" <=> pc = "done"
    /\ ProbeFailed =>
          /\ upnpOut.err = "" /\ ~upnpOut.upnpSuccess
          /\ pc \in {"reconfigure", "waterfall", "end", "done"}
          /\ pc = "waterfall" =>
                (ops # << >> /\ IsSuffix(ops, UpnpUnavailable(conf).ops) /\ conf.upnp = False)

\* C6 witness: each way the probe fails was followed by a completed loading.
C6_Witness ==
    /\ pc = "done" /\ upnpOut.caught = "upnp error" /\ result = "ok"
    /\ program.noupnp = Undefined

(***************************************************************************)
(* lib/network.js: createServersAndListen and the API it returns           *)
(***************************************************************************)
\* the interfaces argument: up to MaxInterfaces {ip, port} pairs
InterfaceIp(k) == CASE k = 1 -> "127.0.0.1" [] k = 2 -> "::1" [] OTHER -> "192.168.1.20"
InterfaceLists ==
    {[k \in 1..n |-> [ip |-> InterfaceIp(k), port |-> Num(DEFAULT_PORT)]] :
        n \in 0..MaxInterfaces}

\* mutant: no check of httpServers.length
CreateAlways(ifs) == "returned"

\* lines 159-164: throws without interface, else returns the API
Create(ifs) == IF Len(ifs) = 0 THEN "thrown" ELSE "returned"

\* createServersAndListen(name, interfaces, ...): lines 128-164
createServersAndListen ==
    /\ api = "none"
    /\ \E ifs \in InterfaceLists :
          /\ interfaces' = ifs
          /\ api' = Create(ifs)
          /\ IF Create(ifs) = "returned"
             THEN /\ listenings'   = [k \in 1..Len(ifs) |-> FALSE]
                  /\ bound'        = [k \in 1..Len(ifs) |-> FALSE]
                  /\ connections'  = [k \in 1..Len(ifs) |-> {}]
                  /\ sockets'      = [k \in 1..Len(ifs) |-> {}]
                  /\ nextSocketId' = [k \in 1..Len(ifs) |-> 0]
             ELSE UNCHANGED <<listenings, bound, connections, sockets, nextSocketId>>
    /\ UNCHANGED <<call, last, confVars, moreVars>>

\* lines 132-135: 'connection' on server i: the accepted socket is tracked
\* under the next socket id
Connection(i) ==
    /\ api = "returned" /\ i \in 1..Len(bound)
    /\ bound[i]
    /\ nextSocketId[i] < MaxSockets
    /\ connections' = [connections EXCEPT ![i] = @ \cup {nextSocketId[i]}]
    /\ sockets' = [sockets EXCEPT ![i] = @ \cup {nextSocketId[i]}]
    /\ nextSocketId' = [nextSocketId EXCEPT ![i] = @ + 1]
    /\ UNCHANGED <<api, interfaces, listenings, bound, call, last, confVars, moreVars>>

\* the peer ends connection id of server i; the socket's 'close' event is due
ConnectionEnd(i, id) ==
    /\ api = "returned" /\ i \in 1..Len(connections)
    /\ id \in connections[i]
    /\ connections' = [connections EXCEPT ![i] = @ \ {id}]
    /\ UNCHANGED <<api, interfaces, listenings, bound, sockets, nextSocketId,
                   call, last, confVars, moreVars>>

\* lines 137-140: 'close' on a tracked socket, ended by the peer or
\* destroyed: its entry is deleted
SocketClose(i, id) ==
    /\ api = "returned" /\ i \in 1..Len(sockets)
    /\ id \in sockets[i] \ connections[i]
    /\ sockets' = [sockets EXCEPT ![i] = @ \ {id}]
    /\ UNCHANGED <<api, interfaces, listenings, bound, connections, nextSocketId,
                   call, last, confVars, moreVars>>

\* mutant: closeSockets destroys nothing
closeSocketsNone(tracked) == {}

\* lines 148-152: closeSockets destroys every tracked socket (the sockets
\* it ends); each one's 'close' event follows later
closeSockets(tracked) == tracked

\* least index >= j of a server to open / to close, 0 when there is none
FirstFrom(ls, j, listening) ==
    IF \E i \in j..Len(ls) : ls[i] = listening
    THEN CHOOSE i \in j..Len(ls) :
            ls[i] = listening /\ \A k \in j..(i - 1) : ls[k] # listening
    ELSE 0

\* mutant: openConnections without the test of isListening
NextToOpenAny(ls, j) == IF j <= Len(ls) THEN j ELSE 0

\* lines 191-194: the next i with listenings[i] false
NextToOpen(ls, j) == FirstFrom(ls, j, FALSE)

\* lines 169-172: the next i with listenings[i] true
NextToClose(ls, j) == FirstFrom(ls, j, TRUE)

NewCall(kind, ls) ==
    [kind |-> kind, i |-> 0, before |-> ls, attempted |-> {}, failed |-> {},
     error |-> FALSE, log |-> << >>, closed |-> {}]

\* openConnections runs from index j to its next httpServer.listen(), where
\* it waits, or to its return
OpenFrom(c, ls, j) ==
    LET i == NextToOpen(ls, j)
    IN  IF i = 0 THEN [done |-> TRUE, call |-> c]
        ELSE [done |-> FALSE, call |-> [c EXCEPT !.i = i, !.attempted = @ \cup {i}]]

\* mutant: the catch block throws again
OnListenErrorRethrows(c, ls) ==
    [done |-> TRUE, call |-> [c EXCEPT !.failed = @ \cup {c.i}, !.error = TRUE]]

\* lines 211-214: the bind error is caught and logged, the loop goes on
OnListenError(c, ls) == OpenFrom([c EXCEPT !.failed = @ \cup {c.i}], ls, c.i + 1)

\* closeConnections runs from index j to its next httpServer.close(), where
\* it waits, or to its return
CloseFrom(c, ls, j) ==
    LET i == NextToClose(ls, j)
    IN  IF i = 0 THEN [done |-> TRUE, call |-> c]
        ELSE [done |-> FALSE, call |-> [c EXCEPT !.i = i, !.attempted = @ \cup {i}]]

\* the call goes on waiting, or has returned (error: it was rejected)
Continue(r) ==
    IF r.done THEN call' = NoCall /\ last' = r.call
    ELSE call' = r.call /\ last' = last

\* lines 190-197: openConnections(), up to its first listen() or its return
openConnections ==
    /\ api = "returned" /\ call.kind = "none"
    /\ Continue(OpenFrom(NewCall("open", listenings), listenings, 1))
    /\ UNCHANGED <<api, interfaces, listenings, bound, connections, sockets,
                   nextSocketId, confVars, moreVars>>

\* lines 204-208: the 'listening' callback of server call.i, then the loop
\* up to the next listen() or the return
Listening ==
    /\ call.kind = "open"
    /\ LET ls == [listenings EXCEPT ![call.i] = TRUE]
       IN  /\ listenings' = ls
           /\ bound' = [bound EXCEPT ![call.i] = TRUE]
           /\ Continue(OpenFrom(call, ls, call.i + 1))
    /\ UNCHANGED <<api, interfaces, connections, sockets, nextSocketId, confVars, moreVars>>

\* lines 142-144 and 200-202: 'error' on server call.i while it binds; the
\* promise is rejected through errorPropagates
ListenError ==
    /\ call.kind = "open"
    /\ Continue(OnListenError(call, listenings))
    /\ UNCHANGED <<api, interfaces, listenings, bound, connections, sockets,
                   nextSocketId, confVars, moreVars>>

\* server i as closeConnections finds it; steps is what it did to it so far,
\* each step with the server as it was when the step was taken
Server(i) ==
    [listening |-> listenings[i], sockets |-> sockets[i],
     connections |-> connections[i], bound |-> bound[i], steps |-> << >>]

Step(s, op) ==
    Append(s.steps, [op |-> op, listening |-> s.listening,
                     connections |-> s.connections, bound |-> s.bound])

\* mutant: the flag is not cleared
clearListeningKept(s) == [s EXCEPT !.steps = Step(s, "listenings[i] = false")]

\* line 173
clearListening(s) == [s EXCEPT !.listening = FALSE, !.steps = Step(s, "listenings[i] = false")]

\* line 179
destroySockets(s) ==
    [s EXCEPT !.connections = @ \ closeSockets(s.sockets), !.steps = Step(s, "closeSockets")]

\* line 180: the listening socket is closed at once, the callback comes later
closeServer(s) == [s EXCEPT !.bound = FALSE, !.steps = Step(s, "close")]

\* mutant: the listening socket is closed first
stopServerCloseFirst(s) == clearListening(destroySockets(closeServer(s)))

\* lines 173-183 for one server: the flag is cleared, the tracked sockets
\* are destroyed, the listening socket is closed
stopServer(s) == closeServer(destroySockets(clearListening(s)))

\* the call keeps what it did to server call.i
Logged(r) ==
    IF r.done THEN r
    ELSE [r EXCEPT !.call.log = Append(@, [i |-> r.call.i,
                                           steps |-> stopServer(Server(r.call.i)).steps])]

\* lines 173-183 for server i
StopListening(r) ==
    IF r.done
    THEN UNCHANGED <<listenings, bound, connections>>
    ELSE LET s == stopServer(Server(r.call.i))
         IN  /\ listenings' = [listenings EXCEPT ![r.call.i] = s.listening]
             /\ connections' = [connections EXCEPT ![r.call.i] = s.connections]
             /\ bound' = [bound EXCEPT ![r.call.i] = s.bound]

\* lines 168-184: closeConnections(), up to its first close() or its return
closeConnections ==
    /\ api = "returned" /\ call.kind = "none"
    /\ LET r == CloseFrom(NewCall("close", listenings), listenings, 1)
       IN  Continue(Logged(r)) /\ StopListening(r)
    /\ UNCHANGED <<api, interfaces, sockets, nextSocketId, confVars, moreVars>>

\* lines 180-183: the callback of httpServer.close() for server call.i, once
\* no connection of the server is open, then the loop up to the next close()
ServerClosed ==
    /\ call.kind = "close"
    /\ connections[call.i] = {}
    /\ LET r == CloseFrom([call EXCEPT !.closed = @ \cup {call.i}], listenings, call.i + 1)
       IN  Continue(Logged(r)) /\ StopListening(r)
    /\ UNCHANGED <<api, interfaces, sockets, nextSocketId, confVars, moreVars>>

\* the configuration side, at rest
ConfIdle ==
    /\ conf = EmptyConf
    /\ given = EmptyConf
    /\ program = [port |-> Undefined, ipv4 |-> Undefined, ipv6 |-> Undefined,
                  remoteh |-> Undefined, remote4 |-> Undefined, remote6 |-> Undefined,
                  remotep |-> Undefined, upnp |-> Undefined, noupnp |-> Undefined,
                  autoconf |-> Undefined]
    /\ netInterfaces = << >>
    /\ pc = "done"
    /\ ops = << >>
    /\ upnpOut = [err |-> "", upnpSuccess |-> FALSE, upnpConf |-> {}, caught |-> ""]
    /\ result = "pending"

InitNet == ConfIdle /\ NetIdle /\ MoreIdle

NextNet ==
    \/ createServersAndListen
    \/ openConnections
    \/ Listening
    \/ ListenError
    \/ closeConnections
    \/ ServerClosed
    \/ \E i \in 1..MaxInterfaces : Connection(i)
    \/ \E i \in 1..MaxInterfaces, id \in 0..(MaxSockets - 1) : ConnectionEnd(i, id)
    \/ \E i \in 1..MaxInterfaces, id \in 0..(MaxSockets - 1) : SocketClose(i, id)

SpecNet == InitNet /\ [][NextNet]_vars

(***************************************************************************)
(* Properties of the listener lifecycle                                    *)
(***************************************************************************)
AllListening(ls) == \A i \in 1..Len(ls) : ls[i]
NoneListening(ls) == \A i \in 1..Len(ls) : ~ls[i]
\* no call is running and the last one to return was of this kind
Returned(kind) == call.kind = "none" /\ last.kind = kind

\* C7: between calls a server is bound exactly when its flag is set; an
\* openConnections binds only servers whose flag was clear and a
\* closeConnections closes only servers whose flag was set, so that on a set
\* already listening (resp. not listening) the call does nothing; no call
\* is rejected.
C7_Idempotent ==
    /\ call.kind = "none" => \A i \in 1..Len(listenings) : listenings[i] = bound[i]
    /\ \A c \in {call, last} :
          /\ c.kind = "open"  => \A i \in c.attempted : ~c.before[i]
          /\ c.kind = "close" => \A i \in c.attempted : c.before[i]
          /\ ~c.error
    /\ last.kind = "open" /\ AllListening(last.before) => last.attempted = {}
    /\ last.kind = "close" /\ NoneListening(last.before) => last.attempted = {}

\* C7 witness: openConnections returned on a set of MaxInterfaces servers
\* that were all listening, and they still are.
C7_Witness ==
    /\ Returned("open") /\ Len(last.before) = MaxInterfaces
    /\ AllListening(last.before) /\ AllListening(listenings)
    /\ last.attempted = {} /\ ~last.error

\* C8 as stated: every open connection is tracked, and once
\* closeConnections has returned the tracked set of every server is empty.
C8_Original ==
    /\ \A i \in 1..Len(sockets) : connections[i] \subseteq sockets[i]
    /\ Returned("close") => \A i \in 1..Len(sockets) : sockets[i] = {}

\* C8 amended: every open connection is tracked from its accept on; a
\* server whose listening socket closeConnections has closed has no open
\* connection left (its tracked sockets were destroyed at once, idle or
\* not), so that when closeConnections returns no connection is open and
\* the entries still tracked are those of ended sockets, each deleted by
\* its 'close' event.
C8_ForcedClose ==
    /\ \A i \in 1..Len(sockets) :
          /\ connections[i] \subseteq sockets[i]
          /\ sockets[i] \subseteq 0..(nextSocketId[i] - 1)
          /\ ~bound[i] => connections[i] = {}
    /\ Returned("close") =>
          \A i \in 1..Len(sockets) : ~bound[i] /\ ~listenings[i] /\ connections[i] = {}

\* C8 witness: closeConnections returned while sockets it destroyed, open
\* until then, are still tracked on every server.
C8_Witness ==
    /\ Returned("close") /\ Len(sockets) = MaxInterfaces
    /\ \A i \in 1..Len(sockets) : sockets[i] # {} /\ connections[i] = {}
    /\ last.attempted = 1..MaxInterfaces

\* C9: when openConnections returns it was not rejected, it tried every
\* server that was not listening, those whose bind failed are not listening
\* and every other one is.
C9_BindFailureIsolated ==
    Returned("open") =>
        /\ ~last.error
        /\ last.attempted = {i \in 1..Len(last.before) : ~last.before[i]}
        /\ \A i \in last.attempted :
              IF i \in last.failed THEN ~listenings[i] /\ ~bound[i]
              ELSE listenings[i] /\ bound[i]

\* C9 witness: the bind of the first server failed and the second server
\* listens.
C9_Witness ==
    /\ Returned("open") /\ last.failed = {1} /\ 2 \in last.attempted
    /\ ~listenings[1] /\ listenings[2] /\ bound[2]

\* C10 as stated: without interface createServersAndListen throws, and the
\* node is never left without a listener unless an error was raised.
C10_Original ==
    /\ (api # "none" /\ Len(interfaces) = 0) => api = "thrown"
    /\ (api = "returned" /\ Returned("open") /\ NoneListening(listenings))
          => last.error

\* C10 amended: createServersAndListen throws, and returns no API, exactly
\* when it is given no interface; with interfaces whose binds all fail,
\* openConnections returns without error and no server listens.
C10_NoInterface ==
    /\ api # "none" => (api = "thrown" <=> Len(interfaces) = 0)
    /\ api = "thrown" => (listenings = << >> /\ call = NoCall /\ last = NoCall)
    /\ api = "returned" => (Len(listenings) = Len(interfaces) /\ Len(interfaces) > 0)
    /\ (api = "returned" /\ Returned("open") /\ NoneListening(listenings))
          => (~last.error /\ last.failed = 1..Len(listenings))

\* C10 witness: createServersAndListen was given no interface and threw.
C10_Witness ==
    api = "thrown" /\ interfaces = << >> /\ listenings = << >>

(***************************************************************************)
(* lib/network.js: the request path.  A request first goes through the     *)
(* ddos middleware (line 50), then through the function registered by      *)
(* handleRequest / handleFileRequest for its route.                        *)
(***************************************************************************)
\* requests of one source the ddos middleware lets through within its window
Burst == 2
\* requests a limiter answers within its window
Ceiling == 2
\* requests sent in all: enough for one source to exceed the burst, and for
\* one limiter to reach its ceiling
MaxRequests == (IF Burst > Ceiling THEN Burst ELSE Ceiling) + 1

Gateway == "192.168.1.1"
\* the hosts that send requests: loopback, the gateway, a remote peer
Sources == {"127.0.0.1", Gateway, "198.51.100.7"}
LimiterNames == {"A", "B"}
\* the routes routingCallback registers: the function used, the limiter given
Routes == {[via |-> "httpGET",     limiter |-> "A"],
           [via |-> "httpPOST",    limiter |-> "none"],
           [via |-> "httpGETFile", limiter |-> "B"],
           [via |-> "httpGETFile", limiter |-> "none"]}

\* lines 45-48: the ip of every interface, and 127.0.0.1
Whitelist(ifs) == {ifs[k].ip : k \in 1..Len(ifs)} \cup {"127.0.0.1"}

\* mutant: the middleware does not look at the whitelist
ddosExpressNoWhitelist(table, whitelist, src) ==
    LET n == IF table[src] > Burst THEN table[src] ELSE table[src] + 1
    IN  [table |-> [table EXCEPT ![src] = n], denied |-> n > Burst]

\* ddosInstance.express: a whitelisted host goes to the next middleware; any
\* other host is counted and is answered 429 once its count exceeds the burst
ddosExpress(table, whitelist, src) ==
    IF src \in whitelist THEN [table |-> table, denied |-> FALSE]
    ELSE LET n == IF table[src] > Burst THEN table[src] ELSE table[src] + 1
         IN  [table |-> [table EXCEPT ![src] = n], denied |-> n > Burst]

\* require('./limiter').limitAsUnlimited(): a limiter without ceiling, whose
\* count is of no use and is not kept
limitAsUnlimited == [unlimited |-> TRUE, count |-> 0]
NewLimiter == [unlimited |-> FALSE, count |-> 0]
canAnswerNow(l) == l.unlimited \/ l.count < Ceiling
processRequest(l) == IF l.unlimited THEN l ELSE [l EXCEPT !.count = @ + 1]

\* constants.ERRORS.HTTP_LIMITATION
HTTP_LIMITATION == "HTTP_LIMITATION"

\* mutant: the handler is called without processRequest
handleRequestNoRecord(l) ==
    IF ~canAnswerNow(l)
    THEN [trace |-> <<"canAnswerNow">>, limiter |-> l, outcome |-> HTTP_LIMITATION]
    ELSE [trace |-> <<"canAnswerNow", "promiseFunc">>,
          limiter |-> l, outcome |-> "pending"]

\* lines 72-92, up to the yield of promiseFunc(req): the calls made in order,
\* the limiter afterwards, and the outcome
handleRequest(l) ==
    IF ~canAnswerNow(l)
    THEN [trace |-> <<"canAnswerNow">>, limiter |-> l, outcome |-> HTTP_LIMITATION]
    ELSE [trace |-> <<"canAnswerNow", "processRequest", "promiseFunc">>,
          limiter |-> processRequest(l), outcome |-> "pending"]

\* lines 97-115, up to the yield of promiseFunc(req)
handleFileRequest(l) ==
    IF ~canAnswerNow(l)
    THEN [trace |-> <<"canAnswerNow">>, limiter |-> l, outcome |-> HTTP_LIMITATION]
    ELSE [trace |-> <<"canAnswerNow", "processRequest", "promiseFunc">>,
          limiter |-> processRequest(l), outcome |-> "pending"]

\* lines 71 and 96: theLimiter || limitAsUnlimited()
LimiterOf(route, limiters) ==
    IF route.limiter = "none" THEN limitAsUnlimited ELSE limiters[route.limiter]

NoRequest ==
    [src |-> "", nth |-> 0, route |-> [via |-> "", limiter |-> "none"],
     whitelisted |-> FALSE,
     trace |-> << >>, before |-> limitAsUnlimited, after |-> limitAsUnlimited,
     outcome |-> "none"]

\* one request of src on route: the ddos middleware, then the route's function
\* (nth counts the requests src sent in a row)
Request(src, route) ==
    /\ gate.state = "on"
    /\ gate.req.outcome # "pending"
    /\ gate.sent < MaxRequests
    /\ LET d == ddosExpress(gate.table, gate.whitelist, src)
           l == LimiterOf(route, gate.limiters)
           h == IF route.via = "httpGETFile" THEN handleFileRequest(l)
                ELSE handleRequest(l)
           r == [src |-> src,
                 nth |-> IF src = gate.req.src THEN gate.req.nth + 1 ELSE 1,
                 route |-> route, whitelisted |-> src \in gate.whitelist,
                 trace |-> << >>, before |-> l, after |-> l, outcome |-> "429"]
       IN  gate' = IF d.denied
                   THEN [gate EXCEPT !.table = d.table, !.sent = @ + 1, !.req = r]
                   ELSE [gate EXCEPT
                           !.table = d.table,
                           !.sent = @ + 1,
                           !.limiters = IF route.limiter = "none" THEN @
                                        ELSE [@ EXCEPT ![route.limiter] = h.limiter],
                           !.req = [r EXCEPT !.trace = h.trace, !.after = h.limiter,
                                             !.outcome = h.outcome]]
    /\ UNCHANGED <<confVars, netVars, svc, best, node, overlap>>

\* promiseFunc(req) settles: lines 83-85 answer 200, lines 87-89 the error
HandlerSettles ==
    /\ gate.state = "on"
    /\ gate.req.outcome = "pending"
    /\ \E o \in {"200", "UNHANDLED"} : gate' = [gate EXCEPT !.req.outcome = o]
    /\ UNCHANGED <<confVars, netVars, svc, best, node, overlap>>

\* the oldest request a limiter counts leaves its window
LimiterWindow(name) ==
    /\ gate.state = "on"
    /\ gate.limiters[name].count > 0
    /\ gate' = [gate EXCEPT !.limiters[name].count = @ - 1]
    /\ UNCHANGED <<confVars, netVars, svc, best, node, overlap>>

\* the entry of a host in the ddos table expires
DdosExpiry(src) ==
    /\ gate.state = "on"
    /\ gate.table[src] > 0
    /\ gate' = [gate EXCEPT !.table[src] = 0]
    /\ UNCHANGED <<confVars, netVars, svc, best, node, overlap>>

\* index.js lines 144-149: the gateway found is pushed to the whitelist
WhitelistGateway ==
    /\ gate.state = "on"
    /\ Gateway \notin gate.whitelist
    /\ gate' = [gate EXCEPT !.whitelist = @ \cup {Gateway}]
    /\ UNCHANGED <<confVars, netVars, svc, best, node, overlap>>

InitGate ==
    /\ ConfIdle /\ NetIdle
    /\ svc = [state |-> "none"]
    /\ best = Undefined
    /\ node = [state |-> "none"]
    /\ overlap = [state |-> "none"]
    /\ \E ifs \in InterfaceLists \ {<< >>} :
          gate = [state |-> "on", whitelist |-> Whitelist(ifs),
                  table |-> [s \in Sources |-> 0],
                  limiters |-> [n \in LimiterNames |-> NewLimiter],
                  sent |-> 0,
                  req |-> NoRequest]

NextGate ==
    \/ \E src \in Sources, route \in Routes : Request(src, route)
    \/ HandlerSettles
    \/ \E name \in LimiterNames : LimiterWindow(name)
    \/ \E src \in Sources : DdosExpiry(src)
    \/ WhitelistGateway

SpecGate == InitGate /\ [][NextGate]_vars

(***************************************************************************)
(* Properties of the request path                                          *)
(***************************************************************************)
\* C11 as stated: a request of a whitelisted source is admitted every time,
\* by the ddos middleware and by the limiter of its route.
C11_Original ==
    (gate.req.outcome # "none" /\ gate.req.whitelisted) =>
        gate.req.outcome \notin {"429", HTTP_LIMITATION}

\* C11: a request of a whitelisted source is never denied by the ddos
\* middleware, however many requests the source sent; it reaches the function
\* of its route, where the route's limiter is consulted as for any source and
\* the request is denied exactly when that limiter cannot answer now.
C11_WhitelistBypassesDdos ==
    (gate.req.outcome # "none" /\ gate.req.whitelisted) =>
        /\ gate.req.outcome # "429"
        /\ gate.req.trace # << >> /\ gate.req.trace[1] = "canAnswerNow"
        /\ gate.req.outcome = HTTP_LIMITATION <=> ~canAnswerNow(gate.req.before)

\* C11 witness: the gateway, once whitelisted, sent more requests than the
\* burst and its last one was answered.
C11_Witness ==
    /\ gate.req.src = Gateway /\ gate.req.whitelisted
    /\ gate.table[Gateway] = 0
    /\ gate.req.nth > Burst
    /\ gate.req.outcome = "200"

\* C12: on every route, promiseFunc is called only after canAnswerNow()
\* answered true and processRequest() was called on the route's limiter; when
\* canAnswerNow() answers false nothing else is called, the limiter is left
\* as it was and the outcome is HTTP_LIMITATION; a route registered without
\* limiter is never answered HTTP_LIMITATION.
C12_LimiterBeforeHandler ==
    gate.req.outcome \notin {"none", "429"} =>
        /\ gate.req.outcome # HTTP_LIMITATION =>
              /\ gate.req.trace = <<"canAnswerNow", "processRequest", "promiseFunc">>
              /\ canAnswerNow(gate.req.before)
              /\ gate.req.after = processRequest(gate.req.before)
              /\ gate.req.route.limiter # "none" =>
                    gate.req.after.count = gate.req.before.count + 1
        /\ gate.req.outcome = HTTP_LIMITATION =>
              /\ gate.req.trace = <<"canAnswerNow">>
              /\ ~canAnswerNow(gate.req.before)
              /\ gate.req.after = gate.req.before
              /\ gate.req.route.limiter # "none"

\* C12 witness: a file route whose limiter had answered up to its ceiling
\* denied the next request.
C12_Witness ==
    /\ gate.req.outcome = HTTP_LIMITATION
    /\ gate.req.route.via = "httpGETFile"
    /\ gate.req.before.count = Ceiling

(***************************************************************************)
(* lib/upnp.js: the port-mapping service and its renewal timer.            *)
(*   svc.interval  the variable interval: 0 while undefined, else the id   *)
(*                 of the timer setInterval returned                       *)
(*   svc.timers    the timers of the process that are active               *)
(*   svc.inflight  openPort calls of the timer awaiting the gateway        *)
(*   svc.lastCall, svc.calls, svc.renewals, svc.failures, svc.retried,     *)
(*   svc.created   record what happened                                    *)
(***************************************************************************)
\* timers one service installs, openPort calls the timers make
MaxTimers   == 3
MaxRenewals == 3

NoGateway == "No UPnP gateway found"

\* mutant: a failed first openPort always fails the creation
upnpStrict(portMapping, externalIp) ==
    IF portMapping = "ok" THEN [state |-> "ready", error |-> ""]
    ELSE IF externalIp = "timeout" THEN [state |-> "failed", error |-> NoGateway]
    ELSE [state |-> "failed", error |-> "error"]

\* lines 30-47 and 79: upnp(localPort, remotePort, logger) returns the
\* service when the first openPort succeeds or when the gateway still gives
\* its external IP; else it throws
upnp(portMapping, externalIp) ==
    IF portMapping = "ok" \/ externalIp = "ok" THEN [state |-> "ready", error |-> ""]
    ELSE IF externalIp = "timeout" THEN [state |-> "failed", error |-> NoGateway]
    ELSE [state |-> "failed", error |-> externalIp]

\* mutant: the timer is not cleared
stopRegularNoClear(s) == s

\* lines 73-77: stopRegular
stopRegular(s) ==
    IF s.interval # 0 THEN [s EXCEPT !.timers = @ \ {s.interval}] ELSE s

\* mutant: startRegular without the call of stopRegular
startRegularNoStop(s) ==
    LET id == s.nextTimer
    IN  [s EXCEPT !.interval = id, !.timers = @ \cup {id}, !.nextTimer = id + 1]

\* lines 68-72: startRegular
startRegular(s) ==
    LET s1 == stopRegular(s)
        id == s1.nextTimer
    IN  [s1 EXCEPT !.interval = id, !.timers = @ \cup {id}, !.nextTimer = id + 1]

\* mutant: a rejected renewal clears the timer
openPortRejectedStops(s) ==
    [s EXCEPT !.inflight = @ - 1, !.failures = @ + 1, !.timers = {}]

\* lines 19-24: the gateway rejects the mapping: the client is closed, the
\* error logged and the promise rejected; nothing awaits that promise
openPortRejected(s) ==
    [s EXCEPT !.inflight = @ - 1, !.failures = @ + 1]

\* lines 19-26: the gateway accepts the mapping
openPortResolved(s) == [s EXCEPT !.inflight = @ - 1]

NewService ==
    [state |-> "none", error |-> "", interval |-> 0, timers |-> {}, nextTimer |-> 1,
     inflight |-> 0, renewals |-> 0, failures |-> 0, retried |-> FALSE,
     lastCall |-> "none", calls |-> 0,
     created |-> [portMapping |-> "", externalIp |-> ""]]

\* upnp(localPort, remotePort, logger)
Upnp ==
    /\ svc.state = "none"
    /\ \E portMapping \in {"ok", "error"}, externalIp \in {"ok", "timeout", "error"} :
          LET r == upnp(portMapping, externalIp)
          IN  svc' = [svc EXCEPT !.state = r.state, !.error = r.error,
                                 !.created = [portMapping |-> portMapping,
                                              externalIp |-> externalIp]]
    /\ UNCHANGED <<confVars, netVars, gate, best, node, overlap>>

\* upnpService.startRegular()
StartRegular ==
    /\ svc.state = "ready"
    /\ svc.nextTimer <= MaxTimers
    /\ svc' = [startRegular(svc) EXCEPT !.lastCall = "startRegular", !.calls = @ + 1]
    /\ UNCHANGED <<confVars, netVars, gate, best, node, overlap>>

\* upnpService.stopRegular()
StopRegular ==
    /\ svc.state = "ready"
    /\ svc.calls < 2 * MaxTimers
    /\ svc' = [stopRegular(svc) EXCEPT !.lastCall = "stopRegular", !.calls = @ + 1]
    /\ UNCHANGED <<confVars, netVars, gate, best, node, overlap>>

\* an active timer fires: async.apply(openPort, localPort, remotePort)
TimerTick(id) ==
    /\ svc.state = "ready"
    /\ id \in svc.timers
    /\ svc.renewals < MaxRenewals
    /\ svc' = [svc EXCEPT !.renewals = @ + 1, !.inflight = @ + 1,
                          !.retried = @ \/ svc.failures > 0]
    /\ UNCHANGED <<confVars, netVars, gate, best, node, overlap>>

\* the gateway answers an openPort call of the timer
PortMappingAnswer ==
    /\ svc.state = "ready"
    /\ svc.inflight > 0
    /\ svc' \in {openPortResolved(svc), openPortRejected(svc)}
    /\ UNCHANGED <<confVars, netVars, gate, best, node, overlap>>

InitUpnp ==
    /\ ConfIdle /\ NetIdle
    /\ gate = [state |-> "none"]
    /\ best = Undefined
    /\ node = [state |-> "none"]
    /\ overlap = [state |-> "none"]
    /\ svc = NewService

NextUpnp ==
    \/ Upnp
    \/ StartRegular
    \/ StopRegular
    \/ \E id \in 1..MaxTimers : TimerTick(id)
    \/ PortMappingAnswer

SpecUpnp == InitUpnp /\ [][NextUpnp]_vars

(***************************************************************************)
(* Properties of the port-mapping service                                  *)
(***************************************************************************)
\* C13: after any sequence of startRegular() and stopRegular() calls at most
\* one timer is active, and it is the one interval holds; a stopRegular()
\* call made while no timer is running changes nothing.
C13_AtMostOneTimer ==
    [][/\ Cardinality(svc'.timers) <= 1
       /\ svc'.timers \subseteq {svc'.interval}
       /\ (svc'.calls = svc.calls + 1 /\ svc'.lastCall = "stopRegular"
              /\ svc.timers = {}) =>
             svc' = [svc EXCEPT !.lastCall = "stopRegular", !.calls = @ + 1]]_vars

\* C13 witness: startRegular() was called three times in a row and a single
\* timer is active.
C13_Witness ==
    /\ svc.state = "ready" /\ svc.lastCall = "startRegular"
    /\ svc.calls = MaxTimers /\ svc.nextTimer = MaxTimers + 1
    /\ svc.timers = {MaxTimers}

\* C14: once stopRegular() returned, the timer makes no openPort call until
\* startRegular() is called again.
C14_NoRenewalAfterStop ==
    [][svc'.renewals > svc.renewals => svc.lastCall = "startRegular"]_vars

\* C14 witness: stopRegular() returned while an openPort call of the timer
\* was still awaiting the gateway.
C14_Witness ==
    /\ svc.state = "ready" /\ svc.lastCall = "stopRegular"
    /\ svc.renewals > 0 /\ svc.inflight > 0 /\ svc.timers = {}

\* C15: a rejected renewal leaves the timer running and the service as it
\* was: while startRegular() is the last call made, the timer of interval is
\* active whatever the number of failures, and the service holds no error.
C15_FailureKeepsTimer ==
    (svc.state = "ready" /\ svc.lastCall = "startRegular") =>
        /\ svc.timers = {svc.interval}
        /\ svc.error = ""

\* C15 witness: after a rejected renewal the timer made another openPort call.
C15_Witness ==
    /\ svc.state = "ready" /\ svc.lastCall = "startRegular"
    /\ svc.failures > 0 /\ svc.retried /\ svc.renewals > svc.failures

(***************************************************************************)
(* lib/network.js: getBestLocalIPv4 over the interface lists of a host     *)
(***************************************************************************)
\* interfaces of a host
MaxHostInterfaces == 3

\* interface names: a tunnel, two wired, a wireless, loopback, and a name
\* that no pattern of interfacePriorityRegCatcher matches
HostNames == {"tun0", "enp2s0f0", "eth0", "eth1", "wlan0", "lo", "docker0"}

IPv4Of(name) ==
    CASE name = "tun0"     -> "10.8.0.2"
      [] name = "enp2s0f0" -> "192.168.1.21"
      [] name = "eth0"     -> "192.168.1.20"
      [] name = "eth1"     -> "192.168.1.22"
      [] name = "wlan0"    -> "192.168.1.23"
      [] name = "lo"       -> "127.0.0.1"
      [] OTHER             -> "172.17.0.1"

\* os.networkInterfaces(): up to MaxHostInterfaces interfaces of distinct
\* names in any enumeration order, each with one IPv4 or one IPv6 address
HostInterface(name, family) ==
    [name |-> name,
     addresses |-> IF family = "IPv4"
                   THEN <<Addr("IPv4", IPv4Of(name), name = "lo", 0)>>
                   ELSE <<Addr("IPv6", "fe80::1", name = "lo", 2)>>]

InventoriesOf(n) ==
    {[k \in 1..n |-> HostInterface(names[k], families[k])] :
        names \in {f \in [1..n -> HostNames] :
                      \A i, j \in 1..n : i # j => f[i] # f[j]},
        families \in [1..n -> {"IPv4", "IPv6"}]}
Inventories == UNION {InventoriesOf(n) : n \in 0..MaxHostInterfaces}

\* a call of getBestLocalIPv4()
GetBestLocalIPv4 ==
    /\ best = Undefined
    /\ best' = getBestLocalIPv4(netInterfaces)
    /\ UNCHANGED <<conf, given, program, netInterfaces, pc, ops, upnpOut, result,
                   netVars, gate, svc, node, overlap>>

InitBest ==
    /\ conf = EmptyConf /\ given = EmptyConf
    /\ program = [port |-> Undefined, ipv4 |-> Undefined, ipv6 |-> Undefined,
                  remoteh |-> Undefined, remote4 |-> Undefined, remote6 |-> Undefined,
                  remotep |-> Undefined, upnp |-> Undefined, noupnp |-> Undefined,
                  autoconf |-> Undefined]
    /\ netInterfaces \in Inventories
    /\ pc = "done" /\ ops = << >> /\ result = "pending"
    /\ upnpOut = [err |-> "", upnpSuccess |-> FALSE, upnpConf |-> {}, caught |-> ""]
    /\ NetIdle
    /\ gate = [state |-> "none"] /\ svc = [state |-> "none"]
    /\ best = Undefined
    /\ node = [state |-> "none"]
    /\ overlap = [state |-> "none"]

NextBest == GetBestLocalIPv4

SpecBest == InitBest /\ [][NextBest]_vars

\* positions of the interfaces that have an IPv4 address
WithIPv4(ifs) ==
    {k \in 1..Len(ifs) : \E a \in 1..Len(ifs[k].addresses) :
                            ifs[k].addresses[a].family = "IPv4"}

\* C16: getBestLocalIPv4 returns the IPv4 address of the interface of least
\* rank in the priority order, the first enumerated among those of that rank,
\* and "" when no interface has an IPv4 address; with only lo and eth0 it
\* returns the address of eth0 in both enumeration orders.
C16_BestLocalIPv4 ==
    best # Undefined =>
        /\ WithIPv4(netInterfaces) = {} => best = Str("")
        /\ WithIPv4(netInterfaces) # {} =>
              \E k \in WithIPv4(netInterfaces) :
                 /\ best = Str(netInterfaces[k].addresses[1].address)
                 /\ \A j \in WithIPv4(netInterfaces) :
                       \/ Priority(netInterfaces[k].name) < Priority(netInterfaces[j].name)
                       \/ /\ Priority(netInterfaces[k].name) = Priority(netInterfaces[j].name)
                          /\ k <= j
        /\ ({netInterfaces[k].name : k \in WithIPv4(netInterfaces)} = {"lo", "eth0"}
               /\ Len(netInterfaces) = 2) =>
              best = Str("192.168.1.20")
        /\ \A k \in WithIPv4(netInterfaces) :
              (netInterfaces[k].name = "tun0" => best = Str("10.8.0.2"))

\* C16 witness: lo enumerated first, eth0 second, and eth0's address returned.
C16_Witness ==
    /\ Len(netInterfaces) = 2
    /\ netInterfaces[1].name = "lo" /\ netInterfaces[2].name = "eth0"
    /\ WithIPv4(netInterfaces) = {1, 2}
    /\ best = Str("192.168.1.20")

(***************************************************************************)
(* Properties of configuration loading: command line and frame             *)
(***************************************************************************)
\* the configuration after the overrides and the defaults of lines 49-66
Begun == DefaultRemote(ApplyOverrides(given, program))

\* lib/bma.js: the interfaces the service listens to, one for conf.ipv4 and
\* one for conf.ipv6, both on conf.port
BmaInterfaces(c) ==
    (IF Truthy(c.ipv4) THEN <<[ip |-> c.ipv4, port |-> c.port]>> ELSE << >>)
    \o (IF Truthy(c.ipv6) THEN <<[ip |-> c.ipv6, port |-> c.port]>> ELSE << >>)

\* C17: every override given on the command line is the value of its field
\* when onLoading ends, whether or not the resolver ran: port, ipv4, ipv6,
\* remote host, remote IPv4, remote IPv6, remote port, and the mapping flags.
C17_Claim ==
    pc = "done" =>
        /\ Truthy(program.port)    => conf.port = program.port
        /\ Truthy(program.ipv4)    => conf.ipv4 = program.ipv4
        /\ Truthy(program.ipv6)    => conf.ipv6 = program.ipv6
        /\ Truthy(program.remoteh) => conf.remotehost = program.remoteh
        /\ Truthy(program.remote4) => conf.remoteipv4 = program.remote4
        /\ Truthy(program.remote6) => conf.remoteipv6 = program.remote6
        /\ Truthy(program.remotep) => conf.remoteport = program.remotep
        /\ program.upnp = True => conf.upnp = True
        /\ (program.noupnp = True /\ program.upnp # True) => conf.upnp = False

\* C18: when the configuration, after the overrides and the local-to-remote
\* defaults, has a local address, a remote form and both ports, and --autoconf
\* was not given, onLoading runs neither the probe nor the resolver, ends
\* without error and leaves the address and port fields as they were; the
\* interfaces the service listens to are those of that configuration.
C18_NoReconfiguration ==
    (pc # "begin" /\ ~Truthy(program.autoconf) /\ HasLocal(Begun) /\ HasRemote(Begun)
       /\ Truthy(Begun.port) /\ Truthy(Begun.remoteport)) =>
        /\ pc \in {"end", "done"}
        /\ ~ProbeFailed /\ ~ProbeSucceeded /\ ops = << >>
        /\ \A f \in {"ipv4", "ipv6", "port", "remoteipv4", "remoteipv6",
                     "remotehost", "remoteport"} : conf[f] = Begun[f]
        /\ BmaInterfaces(conf) = BmaInterfaces(Begun)
        /\ (Truthy(program.ipv4) /\ Truthy(program.port)) =>
              BmaInterfaces(conf)[1] = [ip |-> program.ipv4, port |-> program.port]
        /\ pc = "done" => result = "ok"

\* C18 witness: --ipv4 127.0.0.1 --port <n> on an empty stored configuration
\* loaded without reconfiguration; the service listens on 127.0.0.1:<n>.
C18_Witness ==
    /\ pc = "done" /\ result = "ok" /\ given = EmptyConf
    /\ program.ipv4 = Str("127.0.0.1") /\ program.port = Num(MaxPort)
    /\ program.remotep = Undefined
    /\ BmaInterfaces(conf) = <<[ip |-> Str("127.0.0.1"), port |-> Num(MaxPort)]>>
    /\ conf.remoteipv4 = Str("127.0.0.1") /\ conf.remoteport = Num(MaxPort)

(***************************************************************************)
(* index.js: the interactive wizard 'network' (networkConfiguration), with *)
(* the answers of the operator drawn from the choices the prompts offer.   *)
(* SpecWizard runs the resolver from both of its entry points:             *)
(* config.onLoading (pc = "begin") and the wizard (pc = "wizard").         *)
(***************************************************************************)
\* the IPv4 addresses the prompts list
HostIPv4s(ifs) ==
    LET res == FlattenAddrs(ifs, "IPv4")
    IN  {Str(res[k].value) : k \in 1..Len(res)}

\* lines 317-319: an address with a scope id is suffixed with the interface
ScopedAddress(a, name) ==
    IF a.scopeid # 0 THEN a.address \o "%" \o name ELSE a.address

\* the IPv6 addresses the prompt lists
HostIPv6s(ifs) ==
    UNION {{Str(ScopedAddress(ifs[k].addresses[b], ifs[k].name)) :
               b \in {x \in 1..Len(ifs[k].addresses) :
                         ifs[k].addresses[x].family = "IPv6"}} :
           k \in 1..Len(ifs)}

\* getLocalNetworkOperations(conf)[0], lines 282-309: None or a listed address
AskIPv4(c, ifs) == {[c EXCEPT !.ipv4 = a] : a \in {Null} \cup HostIPv4s(ifs)}

\* getLocalNetworkOperations(conf)[1], lines 310-354 (the value line 339 may
\* set is replaced by the answer at line 351)
AskIPv6(c, ifs) ==
    {[c EXCEPT !.ipv6 = a, !.remoteipv6 = a] : a \in {Null} \cup HostIPv6s(ifs)}

\* simpleInteger, lines 507-511: the answer is a string of digits, or the
\* default conf[property] when it passes the validation
simpleInteger(c, property) ==
    {[c EXCEPT ![property] = a] :
        a \in {Str("3")} \cup (IF Truthy(c[property]) THEN {c[property]} ELSE {})}

\* getRemoteNetworkOperations(conf, remoteipv4), lines 362-436: without local
\* IPv4 the answers are {} and conf.remoteipv4 becomes undefined; else it is
\* None, a listed address, the current or the probed one, or a new one
AskRemote(c, probed) ==
    LET answers == IF ~Truthy(c.ipv4) THEN {Undefined}
                   ELSE {Null, c.ipv4, Str("198.51.100.7")}
                        \cup (IF Truthy(c.remoteipv4) THEN {c.remoteipv4} ELSE {})
                        \cup (IF Truthy(probed) THEN {probed} ELSE {})
        Port(c2) == IF Truthy(c2.remoteipv4) \/ Truthy(c2.remotehost)
                    THEN simpleInteger(c2, "remoteport")
                    ELSE IF Truthy(c2.remoteipv6)
                         THEN {[c2 EXCEPT !.remoteport = c2.port]}
                         ELSE {c2}
    IN  UNION {Port([c EXCEPT !.remoteipv4 = a]) : a \in answers}

\* getUseUPnPOperations(conf, logger), lines 460-481
AskUseUPnP(c) ==
    IF ~Truthy(c.ipv4) THEN {[c EXCEPT !.upnp = False]}
    ELSE {[c EXCEPT !.upnp = True], [c EXCEPT !.upnp = False]}

\* getHostnameOperations(conf, logger, false), lines 438-458
AskHostname(c) ==
    IF ~Truthy(c.ipv4) THEN {[c EXCEPT !.remotehost = Null]}
    ELSE {[c EXCEPT !.remotehost = Str("node.example.org")],
          [c EXCEPT !.remotehost = Null]}

\* the configurations one operation of networkConfiguration may leave
Ask(name, c, ifs, out) ==
    CASE name = "askIPv4"     -> AskIPv4(c, ifs)
      [] name = "askIPv6"     -> AskIPv6(c, ifs)
      [] name = "askPort"     -> simpleInteger(c, "port")
      [] name = "askRemote"   -> AskRemote(c, Prop(out.upnpConf, "remoteipv4"))
      [] name = "askUseUPnP"  -> AskUseUPnP(c)
      [] name = "askHostname" -> AskHostname(c)

\* mutant: the hostname question is asked before the use of UPnP
networkConfigurationHostnameFirst(out) ==
    <<"askIPv4", "askIPv6", "askPort", "askRemote", "askHostname">>
    \o (IF out.upnpSuccess THEN <<"askUseUPnP">> ELSE << >>)

\* lines 268-275: the operations of networkConfiguration
networkConfiguration(out) ==
    <<"askIPv4", "askIPv6", "askPort", "askRemote">>
    \o (IF out.upnpSuccess THEN <<"askUseUPnP">> ELSE << >>)
    \o <<"askHostname">>

\* wizard 'network', lines 36-38 and 265: upnpResolve(!conf.upnp, logger)
WizardNetwork ==
    /\ pc = "wizard"
    /\ \E r \in upnpConf(IF Truthy(conf.upnp) THEN False ELSE True) :
          upnpOut' = upnpResolve(r)
    /\ pc' = "configure"
    /\ UNCHANGED <<conf, given, program, netInterfaces, ops, result, netVars, moreVars>>

\* second function of networkConfiguration's waterfall, lines 266-275
NetworkConfiguration ==
    /\ pc = "configure"
    /\ ops' = networkConfiguration(upnpOut)
    /\ pc' = "asking"
    /\ UNCHANGED <<conf, given, program, netInterfaces, upnpOut, result, netVars, moreVars>>

\* one operation of networkConfiguration; after the last the wizard returns
WizardStep ==
    /\ pc = "asking"
    /\ ops # << >>
    /\ conf' \in Ask(Head(ops), conf, netInterfaces, upnpOut)
    /\ ops' = Tail(ops)
    /\ pc' = IF Tail(ops) = << >> THEN "configured" ELSE "asking"
    /\ UNCHANGED <<given, program, netInterfaces, upnpOut, result, netVars, moreVars>>

\* stored configurations the wizard is run on: none, and a complete one with
\* automatic mapping on or off
WizardConfs ==
    {EmptyConf} \cup
    {[ipv4 |-> Str("192.168.1.10"), ipv6 |-> Undefined, port |-> Num(DEFAULT_PORT),
      remoteipv4 |-> Str("198.51.100.7"), remoteipv6 |-> Undefined,
      remotehost |-> Str("node.example.org"), remoteport |-> Num(DEFAULT_PORT),
      upnp |-> u] : u \in {True, False}}

NoProgram ==
    [port |-> Undefined, ipv4 |-> Undefined, ipv6 |-> Undefined,
     remoteh |-> Undefined, remote4 |-> Undefined, remote6 |-> Undefined,
     remotep |-> Undefined, upnp |-> Undefined, noupnp |-> Undefined,
     autoconf |-> Undefined]

WizardPrograms ==
    {[NoProgram EXCEPT !.autoconf = a, !.noupnp = n, !.upnp = u] :
        a \in {Undefined, True}, n \in {Undefined, True}, u \in {Undefined, True}}

InitWizard ==
    /\ conf \in WizardConfs
    /\ given = conf
    /\ netInterfaces \in Hosts
    /\ \/ pc = "wizard" /\ program = NoProgram
       \/ pc = "begin" /\ program \in WizardPrograms
    /\ ops = << >>
    /\ upnpOut = [err |-> "", upnpSuccess |-> FALSE, upnpConf |-> {}, caught |-> ""]
    /\ result = "pending"
    /\ NetIdle
    /\ MoreIdle

NextWizard ==
    \/ OnLoadingBegin
    \/ UpnpResolve
    \/ NetworkReconfiguration
    \/ WaterfallStep
    \/ OnLoadingEnd
    \/ WizardNetwork
    \/ NetworkConfiguration
    \/ WizardStep

SpecWizard == InitWizard /\ [][NextWizard]_vars

(***************************************************************************)
(* Properties of the resolver, from both entry points                      *)
(***************************************************************************)
\* operation a is still to run, and b after it
Before(a, b) ==
    \E i, j \in 1..Len(ops) : i < j /\ ops[i] = a /\ ops[j] = b

\* C19 as stated: on every path the hostname step runs after the remote
\* values are set and before the automatic-mapping usage step.
C19_Original ==
    /\ ~Before("useUPnP", "hostname")
    /\ ~Before("hostname", "mirror")
    /\ ~Before("askUseUPnP", "askHostname")

\* C19: the steps of one run execute in strict sequence, one at a time,
\* after the probe and before the validation, in these orders.  onLoading
\* with UPnP available: the probed values, then the usage step, then the
\* hostname step.  onLoading with UPnP unavailable: local IPv4, local IPv6,
\* local port, hostname step, then remote = local.  Wizard: local IPv4,
\* local IPv6, local port, remote selection, usage step (only when the probe
\* succeeded), hostname step.
C19_StrictSequence ==
    [][/\ pc' \in {"reconfigure", "configure"} => pc \in {"probe", "wizard"}
       /\ pc = "reconfigure" =>
             /\ pc' = "waterfall"
             /\ ops' = IF upnpOut.upnpSuccess THEN <<"useUPnP", "hostname">>
                       ELSE <<"localIPv4", "localIPv6", "localPort", "hostname", "mirror">>
       /\ pc = "configure" =>
             /\ pc' = "asking"
             /\ ops' = IF upnpOut.upnpSuccess
                       THEN <<"askIPv4", "askIPv6", "askPort", "askRemote",
                              "askUseUPnP", "askHostname">>
                       ELSE <<"askIPv4", "askIPv6", "askPort", "askRemote", "askHostname">>
       /\ pc \in {"waterfall", "asking"} =>
             /\ ops # << >> /\ ops' = Tail(ops)
             /\ pc' = IF ops' # << >> THEN pc
                      ELSE IF pc = "waterfall" THEN "end" ELSE "configured"
       /\ result' # result => (pc = "end" /\ pc' = "done" /\ ops = << >>)]_vars

\* C19 witness: in the wizard, after a successful probe, every step up to the
\* usage step has run and the hostname step is the last one left.
C19_Witness ==
    /\ pc = "asking" /\ ProbeSucceeded /\ ops = <<"askHostname">>
    /\ conf.upnp = True /\ Truthy(conf.remoteipv4)

\* C20: when a resolution has completed (the resolver returned to onLoading,
\* or the wizard returned) and left no local IPv4, there is no remote
\* hostname and automatic mapping is not in use.
C20_Claim ==
    (pc \in {"end", "configured"} /\ (ProbeFailed \/ ProbeSucceeded)
       /\ ~Truthy(conf.ipv4)) =>
        /\ ~Truthy(conf.remotehost)
        /\ ~Truthy(conf.upnp)

(***************************************************************************)
(* Properties of the local port                                            *)
(***************************************************************************)
\* C21: when the resolver has run in autoconf mode, the local port is the
\* port used in the probe if the probe succeeded, and else a port drawn from
\* the range PORT_START..MaxPort (MaxPort standing for 65535).
C21_Claim ==
    (pc = "end" /\ (ProbeFailed \/ ProbeSucceeded)) =>
        IF ProbeSucceeded
        THEN conf.port = Prop(upnpOut.upnpConf, "port")
        ELSE conf.port \in {Num(p) : p \in PORT_START..MaxPort}

(***************************************************************************)
(* Properties of the creation of the port-mapping service                  *)
(***************************************************************************)
\* C22: when the first openPort fails, the creation throws the 'No UPnP
\* gateway found' message if client.externalIp times out, throws the error
\* of client.externalIp unchanged if it fails otherwise, and returns the
\* service if client.externalIp answers.
C22_Creation ==
    (svc.state # "none" /\ svc.created.portMapping = "error") =>
        /\ svc.created.externalIp = "timeout" =>
              (svc.state = "failed" /\ svc.error = NoGateway)
        /\ svc.created.externalIp = "error" =>
              (svc.state = "failed" /\ svc.error = svc.created.externalIp)
        /\ svc.created.externalIp = "ok" =>
              (svc.state = "ready" /\ svc.error = "")

\* C22 witness: the service was created although the first openPort failed,
\* and its timer was started.
C22_Witness ==
    /\ svc.state = "ready" /\ svc.created.portMapping = "error"
    /\ svc.created.externalIp = "ok"
    /\ svc.lastCall = "startRegular" /\ svc.timers # {}

(***************************************************************************)
(* index.js: BMAPI (lines 121-164).  startService and stopService are      *)
(* coroutines: each runs up to its next yield on something the process     *)
(* waits for (bma(), a listen(), a close(), upnp(), findGateway()), and    *)
(* any other call or callback may run meanwhile.                           *)
(*   node.bmapi, node.upnpAPI  the two variables of BMAPI: 0 is undefined, *)
(*                             k > 0 is node.instances[k], node.services[k]*)
(*   node.instances  what each bma() call created: listenings and whitelist*)
(*                   of createServersAndListen, and the bound sockets      *)
(*   node.services   the interval of each upnpService                      *)
(*   node.timers     the active timers of the process                      *)
(*   node.calls      the calls of startService and stopService, in the     *)
(*                   order they were made, with their position             *)
(*   node.overlapped, node.stopped, node.late, node.renewed                *)
(*                   record what happened                                  *)
(***************************************************************************)
MaxCalls == 3

\* lib/bma.js: the interfaces of the configuration, the same for every call
ServiceInterfaceLists ==
    {<<[ip |-> "127.0.0.1", port |-> Num(DEFAULT_PORT)]>>,
     <<[ip |-> "192.168.1.20", port |-> Num(DEFAULT_PORT)],
       [ip |-> "::1", port |-> Num(DEFAULT_PORT)]>>}

\* lib/network.js lines 45-48, in the order of the array
DdosWhitelist(ifs) ==
    LET w == [k \in 1..Len(ifs) |-> ifs[k].ip]
    IN  IF \E k \in 1..Len(w) : w[k] = "127.0.0.1" THEN w ELSE Append(w, "127.0.0.1")

\* lib/bma.js: bma(server, null, httplogs, logger) is createServersAndListen
\* on the interfaces of the configuration: new servers, none listening, and
\* a new ddos instance
bma(ifs) ==
    [listenings |-> [k \in 1..Len(ifs) |-> FALSE],
     bound      |-> [k \in 1..Len(ifs) |-> FALSE],
     whitelist  |-> DdosWhitelist(ifs)]

\* mutant: the gateway is pushed without the test of indexOf
whitelistGatewayPush(w, gateway) ==
    IF gateway = "" THEN w ELSE Append(w, gateway)

\* index.js lines 144-149
whitelistGateway(w, gateway) ==
    IF gateway = "" THEN w
    ELSE IF \E k \in 1..Len(w) : w[k] = gateway THEN w
    ELSE Append(w, gateway)

\* mutant: no try / catch around the mapping
startServiceThrows(c, e) ==
    [c EXCEPT !.pc = "done", !.result = "rejected", !.mapped = "failed"]

\* index.js lines 150-152: the error is logged, startService resolves
startServiceCatch(c, e) ==
    [c EXCEPT !.pc = "done", !.result = "resolved", !.mapped = "failed", !.warned = e]

NewServiceCall(kind) ==
    [kind |-> kind, pc |-> "called", inst |-> 0, oc |-> NoCall, opened |-> FALSE,
     result |-> "pending", mapped |-> "", warned |-> "", gateway |-> "",
     pushedTo |-> 0]

InProgress(n) == \E c \in 1..Len(n.calls) : n.calls[c].pc # "done"

\* upnpAPI.stopRegular() and upnpAPI.startRegular() on service id
StopTimer(n, id) ==
    LET s == stopRegular([interval |-> n.services[id], timers |-> n.timers,
                          nextTimer |-> n.nextTimer])
    IN  [n EXCEPT !.timers = s.timers]

StartTimer(n, id) ==
    LET s == startRegular([interval |-> n.services[id], timers |-> n.timers,
                           nextTimer |-> n.nextTimer])
    IN  [n EXCEPT !.services[id] = s.interval, !.timers = s.timers,
                  !.nextTimer = s.nextTimer]

\* index.js lines 133-138, once openConnections() returned: the former
\* service is stopped, then upnp() is called if conf.upnp
AfterOpen(n, c) ==
    LET n1 == IF n.upnpAPI # 0 THEN StopTimer(n, n.upnpAPI) ELSE n
    IN  IF n.upnpConf
        THEN [n1 EXCEPT !.calls[c].opened = TRUE, !.calls[c].pc = "upnp"]
        ELSE [n1 EXCEPT !.calls[c].opened = TRUE, !.calls[c].pc = "done",
                        !.calls[c].result = "resolved"]

\* openConnections() of call c goes on waiting for a listen(), or returned
Opened(n, c, r) ==
    IF r.done THEN AfterOpen([n EXCEPT !.calls[c].oc = r.call], c)
    ELSE [n EXCEPT !.calls[c].oc = r.call, !.calls[c].pc = "listen"]

\* index.js lines 160-162, once closeConnections() returned
AfterClose(n, c) ==
    LET n1 == IF n.upnpAPI # 0 THEN StopTimer(n, n.upnpAPI) ELSE n
    IN  [n1 EXCEPT !.calls[c].pc = "done", !.calls[c].result = "resolved",
                   !.stopped = TRUE]

\* closeConnections() of call c on instance k clears the flag of the next
\* listening server and closes it (lib/network.js lines 173-183), or returned
Closed(n, c, k, r) ==
    IF r.done THEN AfterClose([n EXCEPT !.calls[c].oc = r.call], c)
    ELSE [n EXCEPT !.calls[c].oc = r.call, !.calls[c].pc = "close",
                   !.calls[c].inst = k,
                   !.instances[k].listenings[r.call.i] = FALSE,
                   !.instances[k].bound[r.call.i] = FALSE]

\* startService() is called: line 131, bma() is awaited
StartService ==
    /\ node.state = "on"
    /\ Len(node.calls) < MaxCalls
    /\ node' = [node EXCEPT !.calls = Append(@, [NewServiceCall("start") EXCEPT !.pc = "bma"]),
                            !.overlapped = @ \/ InProgress(node),
                            !.stopped = FALSE]
    /\ UNCHANGED <<confVars, netVars, gate, svc, best, overlap>>

\* lines 131-132: bma() returned, bmapi is assigned, openConnections() runs
\* to its first listen()
BmaReturns(c) ==
    /\ node.state = "on"
    /\ c \in 1..Len(node.calls) /\ node.calls[c].pc = "bma"
    /\ LET k  == Len(node.instances) + 1
           b  == bma(node.ifs)
           n1 == [node EXCEPT !.instances = Append(@, b), !.bmapi = k,
                              !.calls[c].inst = k]
       IN  node' = Opened(n1, c, OpenFrom(NewCall("open", b.listenings), b.listenings, 1))
    /\ UNCHANGED <<confVars, netVars, gate, svc, best, overlap>>

\* lib/network.js lines 198-214: the listen() of call c is answered.  It
\* fails when a server of another instance is bound to the same address.
ListenAnswer(c, ok) ==
    /\ node.state = "on"
    /\ c \in 1..Len(node.calls) /\ node.calls[c].pc = "listen"
    /\ LET k  == node.calls[c].inst
           oc == node.calls[c].oc
           ls == [node.instances[k].listenings EXCEPT ![oc.i] = TRUE]
       IN  /\ ok => \A j \in 1..Len(node.instances) : ~node.instances[j].bound[oc.i]
           /\ node' =
                IF ok
                THEN Opened([node EXCEPT !.instances[k].listenings = ls,
                                         !.instances[k].bound[oc.i] = TRUE],
                            c, OpenFrom(oc, ls, oc.i + 1))
                ELSE Opened(node, c, OnListenError(oc, node.instances[k].listenings))
    /\ UNCHANGED <<confVars, netVars, gate, svc, best, overlap>>

\* index.js lines 139-141, 150-152: upnp() returned the service, which is
\* assigned and started, and findGateway() is awaited; or upnp() threw
UpnpAnswer(c, portMapping, externalIp) ==
    /\ node.state = "on"
    /\ c \in 1..Len(node.calls) /\ node.calls[c].pc = "upnp"
    /\ LET r  == upnp(portMapping, externalIp)
           id == Len(node.services) + 1
       IN  node' =
             IF r.state = "ready"
             THEN [StartTimer([node EXCEPT !.services = Append(@, 0), !.upnpAPI = id], id)
                      EXCEPT !.calls[c].pc = "gateway", !.calls[c].mapped = "ready"]
             ELSE [node EXCEPT !.calls[c] = startServiceCatch(@, r.error)]
    /\ UNCHANGED <<confVars, netVars, gate, svc, best, overlap>>

\* index.js lines 142-149: findGateway() returned the gateway, or null
GatewayAnswer(c, gateway) ==
    /\ node.state = "on"
    /\ c \in 1..Len(node.calls) /\ node.calls[c].pc = "gateway"
    /\ node' = [node EXCEPT !.instances[node.bmapi].whitelist = whitelistGateway(@, gateway),
                            !.calls[c].pc = "done", !.calls[c].result = "resolved",
                            !.calls[c].gateway = gateway,
                            !.calls[c].pushedTo = node.bmapi]
    /\ UNCHANGED <<confVars, netVars, gate, svc, best, overlap>>

\* stopService() is called: lines 157-159, up to the first close()
StopService ==
    /\ node.state = "on"
    /\ Len(node.calls) < MaxCalls
    /\ LET c  == Len(node.calls) + 1
           n1 == [node EXCEPT !.calls = Append(@, NewServiceCall("stop")),
                              !.overlapped = @ \/ InProgress(node)]
           k  == node.bmapi
       IN  node' =
             IF k = 0 THEN AfterClose(n1, c)
             ELSE LET ls == node.instances[k].listenings
                  IN  Closed(n1, c, k, CloseFrom(NewCall("close", ls), ls, 1))
    /\ UNCHANGED <<confVars, netVars, gate, svc, best, overlap>>

\* lib/network.js lines 180-183: the callback of the close() of call c
CloseAnswer(c) ==
    /\ node.state = "on"
    /\ c \in 1..Len(node.calls) /\ node.calls[c].pc = "close"
    /\ LET k  == node.calls[c].inst
           oc == node.calls[c].oc
       IN  node' = Closed(node, c, k, CloseFrom(oc, node.instances[k].listenings, oc.i + 1))
    /\ UNCHANGED <<confVars, netVars, gate, svc, best, overlap>>

\* an active timer fires (lib/upnp.js line 71)
Renewal(id) ==
    /\ node.state = "on"
    /\ id \in node.timers
    /\ ~node.renewed \/ (node.stopped /\ ~node.late)
    /\ node' = [node EXCEPT !.renewed = TRUE, !.late = @ \/ node.stopped]
    /\ UNCHANGED <<confVars, netVars, gate, svc, best, overlap>>

InitService ==
    /\ ConfIdle /\ NetIdle
    /\ gate = [state |-> "none"] /\ svc = [state |-> "none"] /\ best = Undefined
    /\ overlap = [state |-> "none"]
    /\ \E ifs \in ServiceInterfaceLists, u \in BOOLEAN :
          node = [state |-> "on", ifs |-> ifs, upnpConf |-> u, bmapi |-> 0,
                  upnpAPI |-> 0, instances |-> << >>, services |-> << >>,
                  timers |-> {}, nextTimer |-> 1, calls |-> << >>,
                  overlapped |-> FALSE, stopped |-> FALSE, late |-> FALSE,
                  renewed |-> FALSE]

NextService ==
    \/ StartService
    \/ StopService
    \/ \E c \in 1..MaxCalls : BmaReturns(c)
    \/ \E c \in 1..MaxCalls, ok \in BOOLEAN : ListenAnswer(c, ok)
    \/ \E c \in 1..MaxCalls, portMapping \in {"ok", "error"},
          externalIp \in {"ok", "timeout", "error"} : UpnpAnswer(c, portMapping, externalIp)
    \/ \E c \in 1..MaxCalls, gateway \in {Gateway, ""} : GatewayAnswer(c, gateway)
    \/ \E c \in 1..MaxCalls : CloseAnswer(c)
    \/ \E id \in 1..MaxCalls : Renewal(id)

SpecService == InitService /\ [][NextService]_vars

(***************************************************************************)
(* Properties of the service                                               *)
(***************************************************************************)
Sequential == ~node.overlapped /\ ~InProgress(node)

\* C23: after any sequence of completed startService and stopService calls
\* that ends with stopService, startService twice in a row included, no
\* server of the service is bound and no timer is active.
C23_Claim ==
    (node.state = "on" /\ Sequential /\ node.calls # << >>
       /\ node.calls[Len(node.calls)].kind = "stop") =>
        /\ \A k \in 1..Len(node.instances) :
              \A i \in 1..Len(node.ifs) : ~node.instances[k].bound[i]
        /\ node.timers = {}

\* C24: under every interleaving of the calls at most one timer is active,
\* and no renewal fires once stopService has completed and startService has
\* not been called again.
C24_Claim ==
    node.state = "on" => (Cardinality(node.timers) <= 1 /\ ~node.late)


\* C25: in startService the port mapping is attempted only once
\* openConnections() has returned; and the step in which upnp() throws, or in
\* which findGateway() finds nothing, resolves startService and leaves every
\* server, flag and timer as it was.
C25_MappingFailureKeepsListeners ==
    [][\A c \in 1..Len(node.calls) :
          /\ node.calls[c].pc \in {"upnp", "gateway"} => node.calls[c].opened
          /\ (\/ node.calls[c].pc = "upnp" /\ node'.calls[c].pc = "done"
              \/ /\ node.calls[c].pc = "gateway" /\ node'.calls[c].pc = "done"
                 /\ node'.calls[c].gateway = "") =>
                /\ node'.calls[c].result = "resolved"
                /\ [k \in 1..Len(node.instances) |-> node'.instances[k].listenings]
                     = [k \in 1..Len(node.instances) |-> node.instances[k].listenings]
                /\ [k \in 1..Len(node.instances) |-> node'.instances[k].bound]
                     = [k \in 1..Len(node.instances) |-> node.instances[k].bound]
                /\ node'.timers = node.timers]_vars

\* C25 witness: a startService resolved after upnp() threw 'No UPnP gateway
\* found'; its servers all listen and no timer is active.
C25_Witness ==
    /\ node.state = "on" /\ Len(node.ifs) = 2
    /\ \E c \in 1..Len(node.calls) :
          /\ node.calls[c].kind = "start" /\ node.calls[c].pc = "done"
          /\ node.calls[c].result = "resolved"
          /\ node.calls[c].mapped = "failed" /\ node.calls[c].warned = NoGateway
          /\ AllListening(node.instances[node.calls[c].inst].listenings)
          /\ AllListening(node.instances[node.calls[c].inst].bound)
    /\ node.timers = {}

Occurrences(w, x) == Cardinality({k \in 1..Len(w) : w[k] = x})

\* C26: the whitelist of every ddos instance contains 127.0.0.1, and contains
\* the gateway at most once; when a startService with conf.upnp found a
\* gateway, the whitelist of bmapi's ddos instance contains it, and when the
\* calls did not overlap that instance is the one this startService created.
C26_Whitelist ==
    node.state = "on" =>
        /\ \A k \in 1..Len(node.instances) :
              /\ Occurrences(node.instances[k].whitelist, "127.0.0.1") >= 1
              /\ Occurrences(node.instances[k].whitelist, Gateway) <= 1
        /\ \A c \in 1..Len(node.calls) :
              (node.calls[c].pc = "done" /\ node.calls[c].gateway # "") =>
                  /\ node.upnpConf
                  /\ Occurrences(node.instances[node.calls[c].pushedTo].whitelist,
                                 node.calls[c].gateway) = 1
                  /\ ~node.overlapped => node.calls[c].pushedTo = node.calls[c].inst

\* C26 witness: two startService calls found the gateway and pushed it to the
\* same ddos instance, whose whitelist holds it once, after 127.0.0.1.
C26_Witness ==
    /\ node.state = "on"
    /\ \E c, d \in 1..Len(node.calls) :
          /\ c # d
          /\ node.calls[c].pc = "done" /\ node.calls[d].pc = "done"
          /\ node.calls[c].gateway = Gateway /\ node.calls[d].gateway = Gateway
          /\ node.calls[c].pushedTo = node.calls[d].pushedTo
          /\ node.instances[node.calls[c].pushedTo].whitelist
               = <<"192.168.1.20", "::1", "127.0.0.1", Gateway>>

(***************************************************************************)
(* Properties of closeConnections                                          *)
(***************************************************************************)
\* C27: for each listening server closeConnections clears the flag, then
\* destroys the tracked sockets, then closes the listening socket: when the
\* sockets are destroyed the flag is already false and the server still
\* bound, when the socket is closed no connection is open any more; and
\* closeConnections returns only once the close() of every server that was
\* listening has called back.
C27_CloseOrder ==
    /\ \A c \in {call, last} :
          c.kind = "close" =>
              \A n \in 1..Len(c.log) :
                 LET e == c.log[n].steps
                 IN  /\ [k \in 1..Len(e) |-> e[k].op]
                          = <<"listenings[i] = false", "closeSockets", "close">>
                     /\ e[1].listening /\ e[1].bound
                     /\ ~e[2].listening /\ e[2].bound /\ e[2].connections = e[1].connections
                     /\ ~e[3].listening /\ e[3].bound /\ e[3].connections = {}
    /\ Returned("close") =>
          /\ last.closed = {i \in 1..Len(last.before) : last.before[i]}
          /\ {last.log[n].i : n \in 1..Len(last.log)} = last.closed
          /\ \A i \in last.closed : ~bound[i]
    /\ call.kind = "close" =>
          /\ call.i \notin call.closed
          /\ call.closed = {i \in 1..(call.i - 1) : call.before[i]}

\* C27 witness: closeConnections returned after it closed every server, all
\* listening before, the first of which had open connections.
C27_Witness ==
    /\ Returned("close") /\ Len(last.before) = MaxInterfaces
    /\ last.closed = 1..MaxInterfaces
    /\ Len(last.log) = MaxInterfaces
    /\ last.log[1].steps[1].connections # {}
    /\ last.log[1].steps[3].connections = {}

(***************************************************************************)
(* lib/network.js: openConnections and closeConnections called while       *)
(* earlier calls are waiting.  Every call is a coroutine of its own on the *)
(* same httpServers and listenings; overlap.calls holds those in progress, *)
(* overlap.begun counts the calls made.  A server binds, then tells every  *)
(* listen() waiting on it; a listen() fails when the bind fails, or when   *)
(* another listen() of the same server is under way.                       *)
(***************************************************************************)
MaxOverlap == 2
MaxBegun   == 4

Slots == 1..MaxOverlap

\* the call of the slot goes on waiting, or returned
SlotAfter(r) == IF r.done THEN NoCall ELSE r.call

WaitingListen(s, i) == overlap.calls[s].kind = "open" /\ overlap.calls[s].i = i

\* lines 190-203: openConnections(), up to its first listen() or its return
OverlapOpen(s) ==
    /\ overlap.state = "on"
    /\ overlap.calls[s].kind = "none" /\ overlap.begun < MaxBegun
    /\ overlap' = [overlap EXCEPT
                     !.calls[s] = SlotAfter(OpenFrom(NewCall("open", listenings), listenings, 1)),
                     !.begun = @ + 1]
    /\ UNCHANGED <<confVars, netVars, gate, svc, best, node>>

\* httpServer.listen() of line 203: server i is bound
OverlapBind(i) ==
    /\ overlap.state = "on"
    /\ i <= Len(interfaces)
    /\ \E s \in Slots : WaitingListen(s, i)
    /\ ~bound[i]
    /\ bound' = [bound EXCEPT ![i] = TRUE]
    /\ UNCHANGED <<api, interfaces, listenings, connections, sockets, nextSocketId,
                   call, last, confVars, gate, svc, best, node, overlap>>

\* lines 203-207: the callback of every listen() waiting on server i, then
\* each loop up to its next listen() or its return
OverlapListening(i) ==
    /\ overlap.state = "on"
    /\ i <= Len(interfaces)
    /\ \E s \in Slots : WaitingListen(s, i)
    /\ bound[i]
    /\ LET ls == [listenings EXCEPT ![i] = TRUE]
       IN  /\ listenings' = ls
           /\ overlap' = [overlap EXCEPT !.calls =
                 [s \in Slots |->
                    IF WaitingListen(s, i)
                    THEN SlotAfter(OpenFrom(overlap.calls[s], ls, i + 1))
                    ELSE overlap.calls[s]]]
    /\ UNCHANGED <<api, interfaces, bound, connections, sockets, nextSocketId,
                   call, last, confVars, gate, svc, best, node>>

\* lines 142-144, 200-202 and 211-214: the listen() of slot s fails
OverlapListenError(s) ==
    /\ overlap.state = "on"
    /\ overlap.calls[s].kind = "open"
    /\ \/ ~bound[overlap.calls[s].i]
       \/ \E t \in Slots \ {s} : WaitingListen(t, overlap.calls[s].i)
    /\ overlap' = [overlap EXCEPT !.calls[s] = SlotAfter(OnListenError(@, listenings))]
    /\ UNCHANGED <<confVars, netVars, gate, svc, best, node>>

\* lines 168-184: closeConnections(), up to its first close() or its return
OverlapClose(s) ==
    /\ overlap.state = "on"
    /\ overlap.calls[s].kind = "none" /\ overlap.begun < MaxBegun
    /\ LET r == CloseFrom(NewCall("close", listenings), listenings, 1)
       IN  /\ overlap' = [overlap EXCEPT !.calls[s] = SlotAfter(Logged(r)),
                                         !.begun = @ + 1]
           /\ StopListening(r)
    /\ UNCHANGED <<api, interfaces, sockets, nextSocketId, call, last, confVars,
                   gate, svc, best, node>>

\* lines 180-183: the callback of the close() of slot s, then the loop up to
\* the next close() or the return
OverlapClosed(s) ==
    /\ overlap.state = "on"
    /\ overlap.calls[s].kind = "close"
    /\ LET c == overlap.calls[s]
           r == CloseFrom([c EXCEPT !.closed = @ \cup {c.i}], listenings, c.i + 1)
       IN  /\ overlap' = [overlap EXCEPT !.calls[s] = SlotAfter(Logged(r))]
           /\ StopListening(r)
    /\ UNCHANGED <<api, interfaces, sockets, nextSocketId, call, last, confVars,
                   gate, svc, best, node>>

InitOverlap ==
    /\ ConfIdle
    /\ gate = [state |-> "none"] /\ svc = [state |-> "none"] /\ best = Undefined
    /\ node = [state |-> "none"]
    /\ api = "returned"
    /\ interfaces \in InterfaceLists \ {<< >>}
    /\ listenings = [k \in 1..Len(interfaces) |-> FALSE]
    /\ bound = [k \in 1..Len(interfaces) |-> FALSE]
    /\ connections = [k \in 1..Len(interfaces) |-> {}]
    /\ sockets = [k \in 1..Len(interfaces) |-> {}]
    /\ nextSocketId = [k \in 1..Len(interfaces) |-> 0]
    /\ call = NoCall /\ last = NoCall
    /\ overlap = [state |-> "on", calls |-> [s \in Slots |-> NoCall], begun |-> 0]

NextOverlap ==
    \/ \E s \in Slots : OverlapOpen(s)
    \/ \E i \in 1..MaxInterfaces : OverlapBind(i)
    \/ \E i \in 1..MaxInterfaces : OverlapListening(i)
    \/ \E s \in Slots : OverlapListenError(s)
    \/ \E s \in Slots : OverlapClose(s)
    \/ \E s \in Slots : OverlapClosed(s)

SpecOverlap == InitOverlap /\ [][NextOverlap]_vars

(***************************************************************************)
(* Properties of overlapping calls                                         *)
(***************************************************************************)
\* C28: in every state, calls overlapping or not, a server whose flag
\* listenings[i] is true holds its bound listening socket (a server has one
\* socket at most), and a server that is bound while its flag is false has
\* an openConnections call waiting on its listen().
C28_ListeningIsBound ==
    overlap.state = "on" =>
        \A i \in 1..Len(interfaces) :
           /\ listenings[i] => bound[i]
           /\ (bound[i] /\ ~listenings[i]) => \E s \in Slots : WaitingListen(s, i)

\* C28 witness: a closeConnections call waits for the close() of a server
\* while an openConnections call waits on a server already bound again, and
\* another server is listening.
C28_Witness ==
    /\ overlap.state = "on"
    /\ \E s, t \in Slots :
          /\ overlap.calls[s].kind = "close" /\ overlap.calls[t].kind = "open"
          /\ overlap.calls[s].i = overlap.calls[t].i
          /\ bound[overlap.calls[t].i] /\ ~listenings[overlap.calls[t].i]
    /\ \E j \in 1..Len(interfaces) : listenings[j] /\ bound[j]

====
